---- MODULE Spec2Model ----
(***************************************************************************)
(* Model of tencentcloud/service_tencentcloud_sqlserver.go: the SQL Server *)
(* service (SqlserverService) and the ckafka service (CkafkaService).      *)
(*                                                                         *)
(* One invocation of one service method is modelled as a sequential        *)
(* program: op is the method the caller invoked, pc the position in the    *)
(* method that is executing, stack the return positions of the calls in    *)
(* progress.  The remote API is the environment: every remote call draws   *)
(* its answer from a small set.  trace records the calls that leave the    *)
(* process (ratelimit.Check and the remote actions) in order.  SpecPair    *)
(* runs two invocations of one method concurrently: other keeps the        *)
(* registers of the invocation that is not running.                        *)
(***************************************************************************)
EXTENDS Integers, Sequences, FiniteSets, TLC

VARIABLES
    op,       \* the service method invoked by the caller
    pc,       \* position of the executing method
    loc,      \* arguments and locals of the executing method (a record)
    stack,    \* the callers' frames [pc, loc], innermost first
    trace,    \* ratelimit checks and remote calls, in the order they are made
    remote,   \* the remote collections, by the list action that pages them
    nInst,    \* DescribeDBs: number of per-instance entries of a response
    offset,   \* the local cursor request.Offset points to
    list,     \* the result list of the scan that runs or returned last
    elapsed,  \* time spent in the running resource.Retry
    answer,   \* the payload of the last deal submission / deal lookup
    has,      \* the has result of the method that returned last
    err,      \* the error result of the method that returned last
    out,      \* the instanceId result of the method that returned last
    obj,      \* the object (account, database, user, ACL) the last lookup found
    statuses, \* the status codes DescribeFlowStatus reported so far
    other     \* the registers of a second invocation that is not running now

vars == <<op, pc, loc, stack, trace, remote, nInst, offset, list, elapsed,
          answer, has, err, out, obj, statuses, other>>

(***************************************************************************)
(* Bounds of the model.                                                    *)
(***************************************************************************)
\* a remote collection holds at most MaxPages full pages plus one item
MaxPages == 2
\* strings (ids, names) have at most MaxLen characters
MaxLen == 2

(***************************************************************************)
(* Program constants.                                                      *)
(***************************************************************************)
\* var offset, limit int64 = 0, 20 (DescribeSqlserverInstances)
InstancesLimit == 20
\* var offset, limit int64 = 0, 20 (DescribeSqlserverBackups)
BackupsLimit == 20
\* var offset, limit uint64 = 0, 20 (DescribeSqlserverAccounts)
AccountsLimit == 20
\* declared outside this file; the values of the provider's constant files
SQLSERVER_DEFAULT_OFFSET == 0
SQLSERVER_DEFAULT_LIMIT == 20
CKAFKA_DESCRIBE_LIMIT == 50
SQLSERVER_TASK_RUNNING == 1
SQLSERVER_TASK_FAIL == 2
SQLSERVER_DB_DELETING == -1
\* the retry deadlines, in units of the pause between two attempts
readRetryTimeout == 3
writeRetryTimeout == 5
retryInterval == 1
FILED_SP == <<"#">>

Min(a, b) == IF a < b THEN a ELSE b

(***************************************************************************)
(* Strings are sequences of characters.                                    *)
(***************************************************************************)
Alphabet == {"a", "#"}
Strings == UNION {[1..k -> Alphabet] : k \in 0..MaxLen}

\* s has sep at position i
MatchAt(s, sep, i) ==
    /\ i + Len(sep) - 1 <= Len(s)
    /\ SubSeq(s, i, i + Len(sep) - 1) = sep

Contains(s, sep) == \E i \in 1..Len(s) : MatchAt(s, sep, i)

\* strings.Split(s, sep) for a non-empty sep: the substrings between the
\* leftmost non-overlapping occurrences of sep
RECURSIVE Split(_, _)
Split(s, sep) ==
    IF Contains(s, sep)
    THEN LET i == CHOOSE j \in 1..Len(s) :
                    /\ MatchAt(s, sep, j)
                    /\ \A k \in 1..(j - 1) : ~MatchAt(s, sep, k)
         IN  <<SubSeq(s, 1, i - 1)>>
                 \o Split(SubSeq(s, i + Len(sep), Len(s)), sep)
    ELSE <<s>>

(***************************************************************************)
(* Calls and returns.                                                      *)
(***************************************************************************)
\* return to the caller: its frame is on top of the stack; the method the
\* caller invoked returns to done and keeps its locals for inspection
Return ==
    /\ pc' = IF stack = <<>> THEN "done" ELSE Head(stack).pc
    /\ loc' = IF stack = <<>> THEN loc ELSE Head(stack).loc
    /\ stack' = IF stack = <<>> THEN <<>> ELSE Tail(stack)

\* call method fn with arguments a and come back at position ret
Call(fn, a, ret) ==
    /\ pc' = fn
    /\ loc' = a
    /\ stack' = <<[pc |-> ret, loc |-> loc]>> \o stack

\* a runtime panic (nil pointer dereference, index out of range) unwinds
\* every frame and ends the run
Panic ==
    /\ pc' = "panic"
    /\ stack' = <<>>
    /\ loc' = IF stack = <<>> THEN loc ELSE stack[Len(stack)].loc

\* a step inside one method
Goto(l) ==
    /\ pc' = l
    /\ UNCHANGED <<loc, stack>>

\* call method fn with arguments a; the caller's locals are now l
CallWith(fn, a, ret, l) ==
    /\ pc' = fn
    /\ loc' = a
    /\ stack' = <<[pc |-> ret, loc |-> l]>> \o stack

\* a nil pointer result
Nil == [nil |-> TRUE]

Check(action) == [e |-> "check", action |-> action]
\* a remote call of action with request a, answered r
Invoke(action, a, r) == [e |-> "call", action |-> action, a |-> a, r |-> r]

\* the calls of remote action a in the trace
CallsOf(action) ==
    SelectSeq(trace, LAMBDA x : x.e = "call" /\ x.action = action)

(***************************************************************************)
(* The remote side of a list action.                                       *)
(***************************************************************************)
\* the remote collection of n items, in remote order
RemoteItems(n) == [i \in 1..n |-> i]

\* what the remote returns for (Offset, Limit): the items after the first
\* off ones, at most lim of them
RemotePage(coll, off, lim) == SubSeq(coll, off + 1, Min(off + lim, Len(coll)))

\* the outcomes of one remote call
Responses == {"ok", "nil", "transient", "fatal", "notfound"}

\* retryError: a transient remote error is retried, any other is not
retryError(r) == IF r = "transient" THEN "retryable" ELSE "nonretryable"

(***************************************************************************)
(* resource.Retry(timeout, f): f is called again after a retryable error   *)
(* as long as the deadline has not passed; attempt k+1 is made at time     *)
(* k * retryInterval.                                                      *)
(***************************************************************************)
\* the deadline passes before the next attempt can be made
Expired(timeout) == elapsed + retryInterval >= timeout

\* the error of a method that got remote error r from a retried call
RetryErr(r, timeout) ==
    IF retryError(r) = "retryable" THEN "timeout" ELSE r

\* a retried call that got remote error r is over: the error is not
\* retryable, or no time is left for another attempt
RetryOver(r, timeout) ==
    retryError(r) = "nonretryable" \/ Expired(timeout)

\* what no method changes: the method invoked and the remote side
env == <<op, remote, nInst, other>>

\* what the scans and the lookups leave alone
task == <<answer, out, obj, statuses>>

(***************************************************************************)
(* The offset/limit scans of SqlserverService.                             *)
(***************************************************************************)
\* a cursor that steps over one item more than the page held
NextOffsetSkips(off, limit) == off + limit + 1

\* offset += limit
NextOffset(off, limit) == off + limit

\* a scan that also stops on an exactly full page
LastPageOrFull(page, limit) == Len(page) <= limit

\* if len(page) < int(limit) { return }
LastPage(page, limit) == Len(page) < limit

\* var offset, limit = 0, 20; request.Offset = &offset; request.Limit = &limit
ScanBegin(loop) ==
    /\ offset' = 0
    /\ list' = <<>>
    /\ Goto(loop)
    /\ UNCHANGED <<env, trace, elapsed, has, err, task>>

\* one turn of the for loop of a scan that does not retry: the remote call
\* answers r; notFoundOk says that error code
\* ResourceNotFound.InstanceNotFound ends the scan without an error
ScanPage(action, a, limit, notFoundOk, r) ==
    /\ trace' = trace \o
           <<Check(action),
             Invoke(action, a @@ [Offset |-> offset, Limit |-> limit], r)>>
    /\ IF r = "ok"
       THEN LET page == RemotePage(remote[action], offset, limit)
            IN  /\ list' = list \o page
                /\ IF LastPage(page, limit)
                   THEN /\ err' = "nil"
                        /\ Return
                        /\ offset' = offset
                   ELSE /\ offset' = NextOffset(offset, limit)
                        /\ UNCHANGED <<pc, loc, stack, err>>
       ELSE /\ err' = IF r = "nil" THEN "nilresponse"
                      ELSE IF r = "notfound" /\ notFoundOk THEN "nil"
                      ELSE r
            /\ Return
            /\ UNCHANGED <<offset, list>>
    /\ UNCHANGED <<env, elapsed, has, task>>

DescribeSqlserverInstances ==
    /\ pc = "DescribeSqlserverInstances"
    /\ ScanBegin("DescribeSqlserverInstances_for")

DescribeSqlserverInstancesPage ==
    /\ pc = "DescribeSqlserverInstances_for"
    /\ \E r \in Responses :
           ScanPage("DescribeDBInstances", [InstanceId |-> loc.instanceId],
                    InstancesLimit, FALSE, r)

DescribeSqlserverBackups ==
    /\ pc = "DescribeSqlserverBackups"
    /\ ScanBegin("DescribeSqlserverBackups_for")

DescribeSqlserverBackupsPage ==
    /\ pc = "DescribeSqlserverBackups_for"
    /\ \E r \in Responses :
           ScanPage("DescribeBackups", [InstanceId |-> loc.instanceId],
                    BackupsLimit, FALSE, r)

DescribeSqlserverAccounts ==
    /\ pc = "DescribeSqlserverAccounts"
    /\ ScanBegin("DescribeSqlserverAccounts_for")

DescribeSqlserverAccountsPage ==
    /\ pc = "DescribeSqlserverAccounts_for"
    /\ \E r \in Responses :
           ScanPage("DescribeAccounts", [InstanceId |-> loc.instanceId],
                    AccountsLimit, TRUE, r)

(***************************************************************************)
(* DescribeDBsOfInstance: the scan of the databases of one instance.  Each *)
(* page is fetched inside resource.Retry(readRetryTimeout, ...).           *)
(***************************************************************************)
\* if len(response.Response.DBInstances) < int(limit) { return }
LastDBPage(DBInstances, limit) == Len(DBInstances) < limit

DescribeDBsOfInstance ==
    /\ pc = "DescribeDBsOfInstance"
    /\ offset' = SQLSERVER_DEFAULT_OFFSET
    /\ list' = <<>>
    /\ elapsed' = 0
    /\ Goto("DescribeDBsOfInstance_for")
    /\ UNCHANGED <<env, trace, has, err, task>>

\* one attempt of the retried DescribeDBs call and, when the retry is over,
\* the rest of the turn of the for loop
DescribeDBsOfInstancePage ==
    /\ pc = "DescribeDBsOfInstance_for"
    /\ \E r \in Responses :
        /\ trace' = trace \o
               <<Check("DescribeDBs"),
                 Invoke("DescribeDBs",
                        [InstanceId |-> loc.instanceId, Offset |-> offset,
                         Limit |-> SQLSERVER_DEFAULT_LIMIT], r)>>
        /\ CASE r = "ok" ->
                  LET DBInstances ==
                          [j \in 1..nInst |->
                              RemotePage(remote["DescribeDBs"], offset,
                                         SQLSERVER_DEFAULT_LIMIT)]
                  IN  /\ elapsed' = 0
                      /\ IF Len(DBInstances) = 0
                         THEN /\ err' = "nil"
                              /\ Return
                              /\ UNCHANGED <<offset, list>>
                         ELSE IF Len(DBInstances) > 1
                         THEN /\ err' = "multiple"
                              /\ Return
                              /\ UNCHANGED <<offset, list>>
                         ELSE /\ list' = list \o DBInstances[1]
                              /\ IF LastDBPage(DBInstances, SQLSERVER_DEFAULT_LIMIT)
                                 THEN /\ err' = "nil"
                                      /\ Return
                                      /\ offset' = offset
                                 ELSE /\ offset' = NextOffset(offset,
                                                     SQLSERVER_DEFAULT_LIMIT)
                                      /\ UNCHANGED <<pc, loc, stack, err>>
             [] r = "nil" ->
                  /\ err' = "nilresponse"
                  /\ elapsed' = 0
                  /\ Return
                  /\ UNCHANGED <<offset, list>>
             [] OTHER ->
                  IF RetryOver(r, readRetryTimeout)
                  THEN /\ err' = RetryErr(r, readRetryTimeout)
                       /\ elapsed' = 0
                       /\ Return
                       /\ UNCHANGED <<offset, list>>
                  ELSE /\ elapsed' = elapsed + retryInterval
                       /\ UNCHANGED <<pc, loc, stack, err, offset, list>>
    /\ UNCHANGED <<env, has, task>>

(***************************************************************************)
(* CkafkaService: existence lookups.                                       *)
(***************************************************************************)
\* an id built without the delimiter
JoinIdNoDelimiter(a, b) == a \o b

\* instanceId + FILED_SP + resourceName, fmt.Sprintf("%s%s%s", ...)
JoinId(a, b) == a \o FILED_SP \o b

\* len(items) != 2
BadArity(parts, arity) == Len(parts) # arity

\* one attempt of a retried lookup call (readRetryTimeout) and, when the
\* retry is over, the rest of the method: has is set when the response
\* carries a Result
LookupAttempt(action, a, r) ==
    /\ trace' = trace \o <<Check(action), Invoke(action, a, r)>>
    /\ IF r \in {"ok", "nil"}
       THEN /\ has' = (r = "ok")
            /\ err' = "nil"
            /\ elapsed' = 0
            /\ Return
       ELSE IF RetryOver(r, readRetryTimeout)
       THEN /\ has' = FALSE
            /\ err' = RetryErr(r, readRetryTimeout)
            /\ elapsed' = 0
            /\ Return
       ELSE /\ elapsed' = elapsed + retryInterval
            /\ UNCHANGED <<pc, loc, stack, has, err>>
    /\ UNCHANGED <<env, offset, list, task>>

DescribeInstanceById ==
    /\ pc = "DescribeInstanceById"
    /\ \E r \in Responses :
           LookupAttempt("DescribeInstanceAttributes",
                         [InstanceId |-> loc.instanceId], r)

\* the decoding of the topic id
DescribeTopicById ==
    /\ pc = "DescribeTopicById"
    /\ LET parts == Split(loc.topicId, FILED_SP)
       IN  IF BadArity(parts, 2)
           THEN /\ err' = "malformed"
                /\ has' = FALSE
                /\ Return
           ELSE /\ pc' = "DescribeTopicById_retry"
                /\ loc' = [topicId |-> loc.topicId, instanceId |-> parts[1],
                           topicName |-> parts[2]]
                /\ UNCHANGED <<stack, has, err>>
    /\ elapsed' = 0
    /\ UNCHANGED <<env, trace, offset, list, task>>

DescribeTopicByIdAttempt ==
    /\ pc = "DescribeTopicById_retry"
    /\ \E r \in Responses :
           LookupAttempt("DescribeTopicAttributes",
                         [InstanceId |-> loc.instanceId,
                          TopicName |-> loc.topicName], r)

(***************************************************************************)
(* CkafkaService: the offset/limit scans.                                  *)
(***************************************************************************)
\* if _, has, _ := me.DescribeInstanceById(ctx, instanceId); !has { return }
CkafkaScanCheck(ret) ==
    /\ Call("DescribeInstanceById", [instanceId |-> loc.instance_id], ret)
    /\ elapsed' = 0
    /\ UNCHANGED <<env, trace, offset, list, has, err, task>>

\* return of a scan that was not started: no items, no error
CkafkaScanNone ==
    /\ list' = <<>>
    /\ err' = "nil"
    /\ Return
    /\ UNCHANGED <<env, trace, offset, elapsed, has, task>>

\* var offset int64 = 0; userInfos = make([]*ckafka.User, 0)
CkafkaScanBegin(loop) ==
    /\ offset' = 0
    /\ list' = <<>>
    /\ elapsed' = 0
    /\ err' = "nil"
    /\ Goto(loop)
    /\ UNCHANGED <<env, trace, has, task>>

\* a closure that appends what the response holds before it tests the error
AppendedAlways(l, page, r) == l \o page

\* if err != nil { return retryError(err) }; userInfos = append(userInfos,
\* ...Users...): the result list after an attempt answered with r
Appended(l, page, r) == IF r = "ok" THEN l \o page ELSE l

\* one attempt of the retried list call (the closure appends the page) and,
\* when the retry is over, the rest of the turn of the for loop
CkafkaScanPage(action, a, r) ==
    /\ trace' = trace \o
           <<Check(action),
             Invoke(action, a @@ [Offset |-> offset,
                                  Limit |-> CKAFKA_DESCRIBE_LIMIT], r)>>
    /\ CASE r = "ok" ->
              LET page == RemotePage(remote[action], offset,
                                     CKAFKA_DESCRIBE_LIMIT)
              IN  /\ list' = Appended(list, page, r)
                  /\ elapsed' = 0
                  /\ IF LastPage(page, CKAFKA_DESCRIBE_LIMIT)
                     THEN /\ Return
                          /\ UNCHANGED <<offset, err>>
                     ELSE /\ offset' = NextOffset(offset, CKAFKA_DESCRIBE_LIMIT)
                          /\ UNCHANGED <<pc, loc, stack, err>>
         [] r = "nil" ->
              /\ Panic
              /\ UNCHANGED <<offset, list, elapsed, err>>
         [] OTHER ->
              /\ list' = Appended(list,
                                  RemotePage(remote[action], offset,
                                             CKAFKA_DESCRIBE_LIMIT), r)
              /\ offset' = offset
              /\ IF RetryOver(r, readRetryTimeout)
                 THEN /\ err' = RetryErr(r, readRetryTimeout)
                      /\ elapsed' = 0
                      /\ Return
                 ELSE /\ elapsed' = elapsed + retryInterval
                      /\ UNCHANGED <<pc, loc, stack, err>>
    /\ UNCHANGED <<env, has, task>>

DescribeUserByFilter ==
    /\ pc = "DescribeUserByFilter"
    /\ CkafkaScanCheck("DescribeUserByFilter_has")

DescribeUserByFilterBegin ==
    /\ pc = "DescribeUserByFilter_has"
    /\ IF ~has THEN CkafkaScanNone
       ELSE CkafkaScanBegin("DescribeUserByFilter_for")

DescribeUserByFilterPage ==
    /\ pc = "DescribeUserByFilter_for"
    /\ \E r \in Responses :
           CkafkaScanPage("DescribeUser", [InstanceId |-> loc.instance_id], r)

TOPIC == <<"T", "O", "P", "I", "C">>
GROUP == <<"G", "R", "O", "U", "P">>

DescribeAclByFilter ==
    /\ pc = "DescribeAclByFilter"
    /\ CkafkaScanCheck("DescribeAclByFilter_has")

\* the topic lookup of an ACL on a topic
DescribeAclByFilterTopic ==
    /\ pc = "DescribeAclByFilter_has"
    /\ IF ~has THEN CkafkaScanNone
       ELSE IF loc.resource_type = TOPIC
       THEN /\ Call("DescribeTopicById",
                    [topicId |-> JoinId(loc.instance_id, loc.resource_name)],
                    "DescribeAclByFilter_topic")
            /\ UNCHANGED <<env, trace, offset, list, elapsed, has, err, task>>
       ELSE CkafkaScanBegin("DescribeAclByFilter_for")

DescribeAclByFilterBegin ==
    /\ pc = "DescribeAclByFilter_topic"
    /\ IF ~has THEN CkafkaScanNone
       ELSE CkafkaScanBegin("DescribeAclByFilter_for")

DescribeAclByFilterPage ==
    /\ pc = "DescribeAclByFilter_for"
    /\ \E r \in Responses :
           CkafkaScanPage("DescribeACL",
                          [InstanceId |-> loc.instance_id,
                           ResourceName |-> loc.resource_name], r)

(***************************************************************************)
(* The scans, each invoked by the caller against a remote collection of    *)
(* up to MaxPages full pages plus one item.                                *)
(***************************************************************************)
ScanOps == {"DescribeSqlserverInstances", "DescribeSqlserverBackups",
            "DescribeSqlserverAccounts", "DescribeDBsOfInstance",
            "DescribeUserByFilter", "DescribeAclByFilter"}

\* the list action and the page size of a scan
ScanAction(o) ==
    CASE o = "DescribeSqlserverInstances" -> "DescribeDBInstances"
      [] o = "DescribeSqlserverBackups" -> "DescribeBackups"
      [] o = "DescribeSqlserverAccounts" -> "DescribeAccounts"
      [] o = "DescribeDBsOfInstance" -> "DescribeDBs"
      [] o = "DescribeUserByFilter" -> "DescribeUser"
      [] o = "DescribeAclByFilter" -> "DescribeACL"

ScanLimit(o) ==
    CASE o = "DescribeSqlserverInstances" -> InstancesLimit
      [] o = "DescribeSqlserverBackups" -> BackupsLimit
      [] o = "DescribeSqlserverAccounts" -> AccountsLimit
      [] o = "DescribeDBsOfInstance" -> SQLSERVER_DEFAULT_LIMIT
      [] o = "DescribeUserByFilter" -> CKAFKA_DESCRIBE_LIMIT
      [] o = "DescribeAclByFilter" -> CKAFKA_DESCRIBE_LIMIT

\* the arguments the scans are invoked with
ScanArgs(o) ==
    CASE o = "DescribeDBsOfInstance" -> {[instanceId |-> <<"a">>]}
      [] o = "DescribeUserByFilter" -> {[instance_id |-> <<"a">>]}
      [] o = "DescribeAclByFilter" ->
             [instance_id : {<<"a">>}, resource_type : {TOPIC, GROUP},
              resource_name : {<<"a">>, <<"#">>}]
      [] OTHER -> {[instanceId |-> <<"a">>]}

\* the registers before the first step of the method
Begin ==
    /\ pc = op
    /\ stack = <<>>
    /\ trace = <<>>
    /\ offset = 0
    /\ list = <<>>
    /\ elapsed = 0
    /\ has = FALSE
    /\ err = "nil"
    /\ answer = [DealNames |-> <<>>, Deals |-> <<>>]
    /\ out = ""
    /\ obj = Nil
    /\ statuses = <<>>

\* the state before the first step of the method, invoked once
Start ==
    /\ Begin
    /\ other = Nil

InitScan ==
    /\ op \in ScanOps
    /\ loc \in ScanArgs(op)
    /\ \E n \in 0..(MaxPages * ScanLimit(op) + 1) :
           remote = [a \in {ScanAction(op)} |-> RemoteItems(n)]
    /\ nInst \in (IF op = "DescribeDBsOfInstance" THEN 0..2 ELSE {1})
    /\ Start

NextScan ==
    \/ DescribeSqlserverInstances
    \/ DescribeSqlserverInstancesPage
    \/ DescribeSqlserverBackups
    \/ DescribeSqlserverBackupsPage
    \/ DescribeSqlserverAccounts
    \/ DescribeSqlserverAccountsPage
    \/ DescribeDBsOfInstance
    \/ DescribeDBsOfInstancePage
    \/ DescribeInstanceById
    \/ DescribeTopicById
    \/ DescribeTopicByIdAttempt
    \/ DescribeUserByFilter
    \/ DescribeUserByFilterBegin
    \/ DescribeUserByFilterPage
    \/ DescribeAclByFilter
    \/ DescribeAclByFilterTopic
    \/ DescribeAclByFilterBegin
    \/ DescribeAclByFilterPage

SpecScan == InitScan /\ [][NextScan]_vars

(***************************************************************************)
(* WaitForTaskFinish: polling DescribeFlowStatus inside                    *)
(* resource.Retry(4*writeRetryTimeout, ...).                               *)
(***************************************************************************)
\* the status codes the remote may report: the codes of the provider's
\* table (0 success, 1 running, 2 failed) and one code outside it
SQLSERVER_TASK_SUCCESS == 0
StatusCodes == {SQLSERVER_TASK_SUCCESS, SQLSERVER_TASK_RUNNING,
                SQLSERVER_TASK_FAIL, 3}

\* a poll loop that goes on after the failed code
TaskOutcomeFailPending(status) ==
    IF status \in {SQLSERVER_TASK_RUNNING, SQLSERVER_TASK_FAIL} THEN "retryable"
    ELSE "nil"

\* a poll loop that takes only the running code for success
TaskOutcomeRunningDone(status) ==
    IF status = SQLSERVER_TASK_RUNNING THEN "nil"
    ELSE IF status = SQLSERVER_TASK_FAIL THEN "nonretryable"
    ELSE "retryable"

\* what the closure returns for a status: RetryableError for the running
\* code, NonRetryableError for the failed code, nil for any other
TaskOutcome(status) ==
    IF status = SQLSERVER_TASK_RUNNING THEN "retryable"
    ELSE IF status = SQLSERVER_TASK_FAIL THEN "nonretryable"
    ELSE "nil"

\* a poll under the deadline of one write
TaskTimeoutOfWrite == writeRetryTimeout

\* resource.Retry(4*writeRetryTimeout, ...)
TaskTimeout == 4 * writeRetryTimeout

WaitForTaskFinish ==
    /\ pc = "WaitForTaskFinish"
    /\ elapsed' = 0
    /\ Goto("WaitForTaskFinish_retry")
    /\ UNCHANGED <<env, trace, offset, list, has, err, task>>

\* one call of the closure: the status query, then ratelimit.Check, then
\* the classification of the answer
WaitForTaskFinishPoll ==
    /\ pc = "WaitForTaskFinish_retry"
    /\ \E r \in Responses, status \in StatusCodes :
        /\ trace' = trace \o
               <<Invoke("DescribeFlowStatus", [FlowId |-> loc.flowId], r),
                 Check("DescribeFlowStatus")>>
        /\ CASE r = "ok" ->
                  /\ statuses' = Append(statuses, status)
                  /\ CASE TaskOutcome(status) = "nil" ->
                            /\ err' = "nil"
                            /\ elapsed' = 0
                            /\ Return
                       [] TaskOutcome(status) = "nonretryable" ->
                            /\ err' = "failed"
                            /\ elapsed' = 0
                            /\ Return
                       [] OTHER ->
                            IF Expired(TaskTimeout)
                            THEN /\ err' = "timeout"
                                 /\ elapsed' = 0
                                 /\ Return
                            ELSE /\ elapsed' = elapsed + retryInterval
                                 /\ UNCHANGED <<pc, loc, stack, err>>
             [] r = "nil" ->
                  /\ status = SQLSERVER_TASK_SUCCESS
                  /\ Panic
                  /\ UNCHANGED <<statuses, err, elapsed>>
             [] OTHER ->
                  /\ status = SQLSERVER_TASK_SUCCESS
                  /\ err' = r
                  /\ elapsed' = 0
                  /\ Return
                  /\ UNCHANGED statuses
    /\ UNCHANGED <<env, offset, list, has, answer, out, obj>>

(***************************************************************************)
(* Deal-based submissions: CreateSqlserverInstance,                        *)
(* CreateSqlserverReadonlyInstance and GetInfoFromDeal.                    *)
(***************************************************************************)
\* what a submission may answer in response.Response.DealNames
DealNameLists == {<<>>, <<"deal-1">>, <<"deal-1", "deal-2">>}

\* what DescribeOrders may answer in response.Response.Deals
InstanceIdSets == {<<>>, <<"ins-1">>, <<"ins-1", "ins-2">>}
DealLists ==
    {<<>>} \cup {<<[InstanceIdSet |-> ids, FlowId |-> 7]>> : ids \in InstanceIdSets}
           \cup {<<[InstanceIdSet |-> ids, FlowId |-> 7],
                   [InstanceIdSet |-> ids, FlowId |-> 8]>> : ids \in InstanceIdSets}

\* a resolution that accepts a deal without looking at its instance ids
DealsErrNone(Deals) == "nil"

\* the check of the deal lookup: len(Deals) == 0, len(Deals) > 1
DealsErr(Deals) ==
    IF Len(Deals) = 0 THEN "empty"
    ELSE IF Len(Deals) > 1 THEN "multiple"
    ELSE "nil"

\* the submission (ratelimit.Check, the create call) and the checks of
\* its answer; with exactly one deal name, the call of GetInfoFromDeal
\* for _, v := range securityGroups: under go 1.13 (go.mod) v is one
\* variable for the whole loop, so &v is the same address in iteration i
RangeVar(i) == "v"

\* request.SecurityGroupList = append(request.SecurityGroupList, &v): the
\* strings the appended pointers point to when the request is sent; a
\* variable holds what the last iteration that used it assigned
SecurityGroupList(securityGroups) ==
    LET n == Len(securityGroups)
        ptr == [i \in 1..n |-> RangeVar(i)]
        deref(a) ==
            securityGroups[CHOOSE i \in 1..n :
                               /\ ptr[i] = a
                               /\ \A j \in (i + 1)..n : ptr[j] # a]
    IN  [i \in 1..n |-> deref(ptr[i])]

Submit(action, ret) ==
    \E r \in Responses, DealNames \in DealNameLists :
        /\ trace' = trace \o
               <<Check(action),
                 Invoke(action,
                        [instanceId |-> loc.instanceId,
                         SecurityGroupList |->
                             SecurityGroupList(loc.securityGroups)], r)>>
        /\ IF r = "ok"
           THEN /\ answer' = [answer EXCEPT !.DealNames = DealNames]
                /\ IF Len(DealNames) = 0
                   THEN /\ err' = "empty"
                        /\ Return
                   ELSE IF Len(DealNames) > 1
                   THEN /\ err' = "multiple"
                        /\ Return
                   ELSE /\ Call("GetInfoFromDeal", [dealId |-> DealNames[1]], ret)
                        /\ err' = err
           ELSE /\ DealNames = <<>>
                /\ err' = IF r = "nil" THEN "nilresponse" ELSE r
                /\ Return
                /\ UNCHANGED answer
        /\ UNCHANGED <<env, offset, list, elapsed, has, out, obj, statuses>>

\* instanceId, err = me.GetInfoFromDeal(ctx, dealId); errRet = err; return
SubmitReturn ==
    /\ Return
    /\ UNCHANGED <<env, trace, offset, list, elapsed, has, err, task>>

\* a create whose submission is called again after a transient error
CreateSqlserverInstanceRetried ==
    /\ pc = "CreateSqlserverInstance"
    /\ \/ Submit("CreateDBInstances", "CreateSqlserverInstance_ret")
       \/ /\ trace' = trace \o <<Check("CreateDBInstances"),
                                  Invoke("CreateDBInstances", loc,
                                         "transient")>>
          /\ Len(trace) < 4
          /\ UNCHANGED <<env, pc, loc, stack, offset, list, elapsed, has,
                         err, task>>

CreateSqlserverInstance ==
    /\ pc = "CreateSqlserverInstance"
    /\ Submit("CreateDBInstances", "CreateSqlserverInstance_ret")

CreateSqlserverInstanceReturn ==
    /\ pc = "CreateSqlserverInstance_ret"
    /\ SubmitReturn

CreateSqlserverReadonlyInstance ==
    /\ pc = "CreateSqlserverReadonlyInstance"
    /\ Submit("CreateReadOnlyDBInstances", "CreateSqlserverReadonlyInstance_ret")

CreateSqlserverReadonlyInstanceReturn ==
    /\ pc = "CreateSqlserverReadonlyInstance_ret"
    /\ SubmitReturn

\* the deal lookup and the resolution of the deal to the instance id and
\* the flow id
GetInfoFromDeal ==
    /\ pc = "GetInfoFromDeal"
    /\ \E r \in Responses, Deals \in DealLists :
        /\ trace' = trace \o
               <<Check("DescribeOrders"),
                 Invoke("DescribeOrders", [DealNames |-> <<loc.dealId>>], r)>>
        /\ IF r = "ok"
           THEN /\ answer' = [answer EXCEPT !.Deals = Deals]
                /\ IF DealsErr(Deals) # "nil"
                   THEN /\ err' = DealsErr(Deals)
                        /\ out' = ""
                        /\ Return
                   ELSE IF Len(Deals[1].InstanceIdSet) = 0
                   THEN /\ Panic      \* InstanceIdSet[0]: index out of range
                        /\ UNCHANGED <<err, out>>
                   ELSE /\ out' = Deals[1].InstanceIdSet[1]
                        /\ err' = err
                        /\ Call("WaitForTaskFinish",
                                [flowId |-> Deals[1].FlowId],
                                "GetInfoFromDeal_ret")
           ELSE /\ Deals = <<>>
                /\ err' = IF r = "nil" THEN "nilresponse" ELSE r
                /\ out' = ""
                /\ Return
                /\ UNCHANGED answer
    /\ UNCHANGED <<env, offset, list, elapsed, has, obj, statuses>>

\* err = me.WaitForTaskFinish(ctx, flowId); errRet = err; return
GetInfoFromDealReturn ==
    /\ pc = "GetInfoFromDeal_ret"
    /\ SubmitReturn

TaskOps == {"CreateSqlserverInstance", "CreateSqlserverReadonlyInstance",
            "GetInfoFromDeal", "WaitForTaskFinish"}

TaskArgs(o) ==
    CASE o = "GetInfoFromDeal" -> {[dealId |-> "deal-1"]}
      [] o = "WaitForTaskFinish" -> {[flowId |-> 7]}
      [] OTHER ->
             [instanceId : {<<"a">>},
              securityGroups :
                  UNION {[1..n -> {"sg-1", "sg-2"}] : n \in 0..MaxLen}]

InitTask ==
    /\ op \in TaskOps
    /\ loc \in TaskArgs(op)
    /\ remote = <<>>
    /\ nInst = 1
    /\ Start

NextTask ==
    \/ CreateSqlserverInstance
    \/ CreateSqlserverInstanceReturn
    \/ CreateSqlserverReadonlyInstance
    \/ CreateSqlserverReadonlyInstanceReturn
    \/ GetInfoFromDeal
    \/ GetInfoFromDealReturn
    \/ WaitForTaskFinish
    \/ WaitForTaskFinishPoll

SpecTask == InitTask /\ [][NextTask]_vars

(***************************************************************************)
(* SqlserverService: lookups by id and ModifyAccountDBAttachment.          *)
(***************************************************************************)
\* the first item of l named nm, Nil when there is none
FindByName(l, nm) ==
    IF \E i \in 1..Len(l) : l[i].Name = nm
    THEN l[CHOOSE i \in 1..Len(l) :
               /\ l[i].Name = nm
               /\ \A j \in 1..(i - 1) : l[j].Name # nm]
    ELSE Nil

DescribeSqlserverAccountById ==
    /\ pc = "DescribeSqlserverAccountById"
    /\ Call("DescribeSqlserverAccounts", [instanceId |-> loc.instanceId],
            "DescribeSqlserverAccountById_ret")
    /\ UNCHANGED <<env, trace, offset, list, elapsed, has, err, task>>

\* the search of the account list for userName
DescribeSqlserverAccountByIdReturn ==
    /\ pc = "DescribeSqlserverAccountById_ret"
    /\ LET account == FindByName(list, loc.userName)
       IN  IF err # "nil"
           THEN /\ has' = FALSE
                /\ obj' = Nil
           ELSE /\ has' = (account # Nil)
                /\ obj' = account
    /\ Return
    /\ UNCHANGED <<env, trace, offset, list, elapsed, err, answer, out,
                   statuses>>

\* if len(idItem) < 2 { errRet = fmt.Errorf("broken ID of SQLServer DB") }
DBIdBroken(idItem) == Len(idItem) < 2

\* the decoding of the DB id and the call of DescribeDBsOfInstance
DescribeDBDetailsById ==
    /\ pc = "DescribeDBDetailsById"
    /\ LET idItem == Split(loc.dbId, FILED_SP)
       IN  IF DBIdBroken(idItem)
           THEN /\ err' = "malformed"
                /\ has' = FALSE
                /\ obj' = Nil
                /\ Return
           ELSE /\ CallWith("DescribeDBsOfInstance",
                            [instanceId |-> idItem[1]],
                            "DescribeDBDetailsById_ret",
                            [dbId |-> loc.dbId, instanceId |-> idItem[1],
                             dbName |-> idItem[2]])
                /\ UNCHANGED <<err, has, obj>>
    /\ UNCHANGED <<env, trace, offset, list, elapsed, answer, out, statuses>>

\* the search of the DB list for dbName; a deleting DB is not there
DescribeDBDetailsByIdReturn ==
    /\ pc = "DescribeDBDetailsById_ret"
    /\ LET dbDetail == FindByName(list, loc.dbName)
       IN  IF err # "nil"
           THEN /\ has' = FALSE
                /\ obj' = Nil
           ELSE /\ has' = /\ dbDetail # Nil
                          /\ dbDetail.Status # SQLSERVER_DB_DELETING
                /\ obj' = dbDetail
    /\ Return
    /\ UNCHANGED <<env, trace, offset, list, elapsed, err, answer, out,
                   statuses>>

\* //check account exists
ModifyAccountDBAttachment ==
    /\ pc = "ModifyAccountDBAttachment"
    /\ Call("DescribeSqlserverAccountById",
            [instanceId |-> loc.instanceId, userName |-> loc.accountName],
            "ModifyAccountDBAttachment_account")
    /\ UNCHANGED <<env, trace, offset, list, elapsed, has, err, task>>

\* //check db exists
ModifyAccountDBAttachmentDB ==
    /\ pc = "ModifyAccountDBAttachment_account"
    /\ IF err # "nil"
       THEN /\ Return
            /\ err' = err
       ELSE IF ~has
       THEN /\ Return
            /\ err' = "notexist"
       ELSE /\ Call("DescribeDBDetailsById",
                    [dbId |-> JoinId(loc.instanceId, loc.dbName)],
                    "ModifyAccountDBAttachment_db")
            /\ err' = err
    /\ UNCHANGED <<env, trace, offset, list, elapsed, has, task>>

\* a check of the database that takes an absent database for present
DBCheckErrLookupOnly == err

\* if err != nil { return err }; if !has { return fmt.Errorf("SQL Server
\* DB %s , instance ID %s is not exist", ...) }
DBCheckErr == IF err # "nil" THEN err ELSE IF ~has THEN "notexist" ELSE "nil"

\* the ModifyAccountPrivilege call and the call of WaitForTaskFinish;
\* an error e of the remote call comes with a response or without one
ModifyAccountDBAttachmentModify ==
    /\ pc = "ModifyAccountDBAttachment_db"
    /\ IF DBCheckErr # "nil"
       THEN /\ Return
            /\ err' = DBCheckErr
            /\ trace' = trace
       ELSE \E r \in Responses, withResponse \in BOOLEAN :
            /\ r \in {"ok", "nil"} => withResponse = (r = "ok")
            /\ trace' = trace \o
                   <<Check("ModifyAccountPrivilege"),
                     Invoke("ModifyAccountPrivilege",
                            [InstanceId |-> loc.instanceId,
                             UserName |-> loc.accountName,
                             DBName |-> loc.dbName], r)>>
            /\ IF ~withResponse
               THEN /\ err' = "nilresponse"
                    /\ Return
               ELSE IF r # "ok"
               THEN /\ err' = r
                    /\ Return
               ELSE /\ Call("WaitForTaskFinish", [flowId |-> 7],
                            "ModifyAccountDBAttachment_wait")
                    /\ err' = err
    /\ UNCHANGED <<env, offset, list, elapsed, has, task>>

\* err = me.WaitForTaskFinish(ctx, flowId); return err
ModifyAccountDBAttachmentReturn ==
    /\ pc = "ModifyAccountDBAttachment_wait"
    /\ SubmitReturn

(***************************************************************************)
(* CkafkaService: lookups by composite id.                                 *)
(***************************************************************************)
\* the decoding of the user id and the instance lookup
DescribeUserByUserId ==
    /\ pc = "DescribeUserByUserId"
    /\ LET parts == Split(loc.userId, FILED_SP)
       IN  IF BadArity(parts, 2)
           THEN /\ err' = "malformed"
                /\ has' = FALSE
                /\ obj' = Nil
                /\ Return
           ELSE /\ CallWith("DescribeInstanceById",
                            [instanceId |-> parts[1]],
                            "DescribeUserByUserId_has",
                            [userId |-> loc.userId, instanceId |-> parts[1],
                             user |-> parts[2]])
                /\ UNCHANGED <<err, has, obj>>
    /\ elapsed' = 0
    /\ UNCHANGED <<env, trace, offset, list, answer, out, statuses>>

\* if _, has, _ = me.DescribeInstanceById(ctx, instanceId); !has { return }
DescribeUserByUserIdHas ==
    /\ pc = "DescribeUserByUserId_has"
    /\ IF ~has
       THEN /\ Return
            /\ err' = "nil"
            /\ obj' = Nil
       ELSE /\ Goto("DescribeUserByUserId_retry")
            /\ UNCHANGED <<err, obj>>
    /\ elapsed' = 0
    /\ UNCHANGED <<env, trace, offset, list, has, answer, out, statuses>>

\* what DescribeUser may answer in response.Response.Result.Users
UserLists == {<<>>, <<[Name |-> <<"a">>]>>,
              <<[Name |-> <<"a">>], [Name |-> <<"a", "a">>]>>}

\* one attempt of the retried DescribeUser call and, when the retry is
\* over, the rest of the method; has still holds the instance's has
DescribeUserByUserIdAttempt ==
    /\ pc = "DescribeUserByUserId_retry"
    /\ \E r \in Responses, Users \in UserLists :
        /\ r # "ok" => Users = <<>>
        /\ trace' = trace \o
               <<Invoke("DescribeUser", [InstanceId |-> loc.instanceId,
                                         SearchWord |-> loc.user], r)>>
        /\ CASE r = "ok" ->
                  /\ elapsed' = 0
                  /\ Return
                  /\ IF Len(Users) < 1
                     THEN /\ has' = FALSE
                          /\ err' = "nil"
                          /\ obj' = Nil
                     ELSE IF Len(Users) > 1
                     THEN /\ err' = "duplicated"
                          /\ obj' = Nil
                          /\ has' = has
                     ELSE /\ obj' = Users[1]
                          /\ has' = TRUE
                          /\ err' = "nil"
             [] r = "nil" ->
                  /\ elapsed' = 0
                  /\ Return
                  /\ err' = "nil"
                  /\ obj' = Nil
                  /\ has' = has
             [] OTHER ->
                  IF RetryOver(r, readRetryTimeout)
                  THEN /\ err' = RetryErr(r, readRetryTimeout)
                       /\ elapsed' = 0
                       /\ obj' = Nil
                       /\ has' = has
                       /\ Return
                  ELSE /\ elapsed' = elapsed + retryInterval
                       /\ UNCHANGED <<pc, loc, stack, err, obj, has>>
    /\ UNCHANGED <<env, offset, list, answer, out, statuses>>

\* the ACL that matches the decoded permission, principal and operation
FindAcl(l, permission, principal, operation) ==
    IF \E i \in 1..Len(l) : /\ l[i].PermissionType = permission
                            /\ l[i].Principal = principal
                            /\ l[i].Operation = operation
    THEN l[CHOOSE i \in 1..Len(l) :
               /\ l[i].PermissionType = permission
               /\ l[i].Principal = principal
               /\ l[i].Operation = operation
               /\ \A j \in 1..(i - 1) :
                      ~ /\ l[j].PermissionType = permission
                        /\ l[j].Principal = principal
                        /\ l[j].Operation = operation]
    ELSE Nil

\* the decoding of the ACL id and the call of DescribeAclByFilter
DescribeAclByAclId ==
    /\ pc = "DescribeAclByAclId"
    /\ LET parts == Split(loc.aclId, FILED_SP)
       IN  IF BadArity(parts, 7)
           THEN /\ err' = "malformed"
                /\ has' = FALSE
                /\ obj' = Nil
                /\ Return
           ELSE /\ CallWith("DescribeAclByFilter",
                            [instance_id |-> parts[1],
                             resource_type |-> parts[6],
                             resource_name |-> parts[7],
                             host |-> parts[4]],
                            "DescribeAclByAclId_ret",
                            [aclId |-> loc.aclId, permission |-> parts[2],
                             principal |-> parts[3], operation |-> parts[5]])
                /\ UNCHANGED <<err, has, obj>>
    /\ UNCHANGED <<env, trace, offset, list, elapsed, answer, out, statuses>>

\* the search of the ACL list
DescribeAclByAclIdReturn ==
    /\ pc = "DescribeAclByAclId_ret"
    /\ LET acl == FindAcl(list, loc.permission, loc.principal, loc.operation)
       IN  IF err # "nil"
           THEN /\ has' = FALSE
                /\ obj' = Nil
           ELSE /\ has' = (acl # Nil)
                /\ obj' = acl
    /\ Return
    /\ UNCHANGED <<env, trace, offset, list, elapsed, err, answer, out,
                   statuses>>

(***************************************************************************)
(* The methods that build or decode a composite id, each invoked by the    *)
(* caller with ids and names of up to MaxLen characters per part.          *)
(***************************************************************************)
(* DescribeAccountDBAttachments: the privileges of accounts on databases,  *)
(* read from the account (accountName given) or from the databases.        *)
(***************************************************************************)
\* a filter that keeps every database
KeepsAnyDB(name, dbName) == TRUE

\* if (dbName != "" && *v.DBName == dbName) || dbName == ""
KeepsDB(name, dbName) == (dbName # <<>> /\ name = dbName) \/ dbName = <<>>

\* the attachments of the databases Dbs of account accountName
AttachmentsOfAccount(Dbs, accountName, dbName) ==
    LET kept == SelectSeq(Dbs, LAMBDA v : KeepsDB(v.DBName, dbName))
    IN  [i \in 1..Len(kept) |->
            [db_name |-> kept[i].DBName, account_name |-> accountName,
             privilege |-> kept[i].Privilege]]

\* the attachments of the accounts of the databases dbInfos
RECURSIVE AttachmentsOfDBs(_, _)
AttachmentsOfDBs(dbInfos, dbName) ==
    IF dbInfos = <<>> THEN <<>>
    ELSE LET v == Head(dbInfos)
         IN  (IF KeepsDB(v.Name, dbName)
              THEN [i \in 1..Len(v.Accounts) |->
                       [db_name |-> v.Name,
                        account_name |-> v.Accounts[i].UserName,
                        privilege |-> v.Accounts[i].Privilege]]
              ELSE <<>>)
             \o AttachmentsOfDBs(Tail(dbInfos), dbName)

DescribeAccountDBAttachments ==
    /\ pc = "DescribeAccountDBAttachments"
    /\ IF loc.accountName # <<>>
       THEN Call("DescribeSqlserverAccountById",
                 [instanceId |-> loc.instanceId, userName |-> loc.accountName],
                 "DescribeAccountDBAttachments_account")
       ELSE Call("DescribeDBsOfInstance", [instanceId |-> loc.instanceId],
                 "DescribeAccountDBAttachments_dbs")
    /\ UNCHANGED <<env, trace, offset, list, elapsed, has, err, task>>

\* the loop over accounts.Dbs
DescribeAccountDBAttachmentsAccount ==
    /\ pc = "DescribeAccountDBAttachments_account"
    /\ list' = IF err # "nil" \/ ~has THEN <<>>
               ELSE AttachmentsOfAccount(obj.Dbs, loc.accountName, loc.dbName)
    /\ Return
    /\ UNCHANGED <<env, trace, offset, elapsed, has, err, task>>

\* the loop over dbInfos
DescribeAccountDBAttachmentsDBs ==
    /\ pc = "DescribeAccountDBAttachments_dbs"
    /\ list' = IF err # "nil" THEN <<>>
               ELSE AttachmentsOfDBs(list, loc.dbName)
    /\ Return
    /\ UNCHANGED <<env, trace, offset, elapsed, has, err, task>>

(***************************************************************************)
IdOps == {"DescribeDBDetailsById", "ModifyAccountDBAttachment",
          "DescribeAccountDBAttachments",
          "DescribeUserByUserId", "DescribeTopicById", "DescribeAclByAclId",
          "DescribeAclByFilter"}

\* composite ids: every string of up to two parts and a delimiter
IdStrings == UNION {[1..k -> Alphabet] : k \in 0..(2 * MaxLen + 1)}

\* parts joined by the delimiter
RECURSIVE JoinParts(_)
JoinParts(parts) ==
    IF Len(parts) = 0 THEN <<>>
    ELSE IF Len(parts) = 1 THEN parts[1]
    ELSE parts[1] \o FILED_SP \o JoinParts(Tail(parts))

\* ACL ids: "instanceId#permissionType#principal#host#operation#
\* resourceType#resourceName", and ids of six and of eight parts
AclIds ==
    {JoinParts([i \in 1..k |-> <<"a">>]) : k \in 6..8}
        \cup {JoinParts(<<<<"a">>, <<"a">>, <<"a">>, <<"a">>, <<"a">>, t, n>>) :
                  t \in {TOPIC, GROUP}, n \in {<<"a">>, <<>>}}

\* the names of the databases and accounts of the attachments
Names == {<<"a">>, <<"#">>}

\* the lists of up to MaxLen items of set S
ListsOf(S) == UNION {[1..n -> S] : n \in 0..MaxLen}

\* no name occurs twice in the list of names
Distinct(names) ==
    \A i, j \in 1..Len(names) : names[i] = names[j] => i = j

IdArgs(o) ==
    CASE o = "DescribeDBDetailsById" -> [dbId : IdStrings]
      [] o = "ModifyAccountDBAttachment" ->
             [instanceId : Strings, accountName : {<<"a">>}, dbName : Strings]
      [] o = "DescribeAccountDBAttachments" ->
             [instanceId : {<<"a">>}, accountName : {<<>>, <<"a">>},
              dbName : {<<>>} \cup Names]
      [] o = "DescribeUserByUserId" -> [userId : IdStrings]
      [] o = "DescribeTopicById" -> [topicId : IdStrings]
      [] o = "DescribeAclByAclId" -> [aclId : AclIds]
      [] o = "DescribeAclByFilter" ->
             [instance_id : Strings, resource_type : {TOPIC, GROUP},
              resource_name : Strings]

\* a name no argument can spell, different for every position
Filler(i) == [j \in 1..(2 * MaxLen + 2 + i) |-> "f"]

\* a remote list of n accounts or databases whose k-th item is named nm
\* and has status st
NamedItems(n, k, nm, st) ==
    [i \in 1..n |-> IF i = k THEN [Name |-> nm, Status |-> st]
                    ELSE [Name |-> Filler(i), Status |-> 2]]

\* the remote accounts with their databases: none, account "a", or another
\* account and account "a"
AttachedAccounts ==
    LET Dbs == {l \in ListsOf([DBName : Names,
                                Privilege : {"ReadOnly", "ReadWrite"}]) :
                    Distinct([i \in 1..Len(l) |-> l[i].DBName])}
        stranger == [Name |-> Filler(1), Status |-> 2,
                     Dbs |-> <<[DBName |-> <<"a">>,
                                Privilege |-> "ReadOnly"]>>]
    IN  {<<>>}
        \cup {<<[Name |-> <<"a">>, Status |-> 2, Dbs |-> d]>> : d \in Dbs}
        \cup {<<stranger, [Name |-> <<"a">>, Status |-> 2, Dbs |-> d]>> :
                  d \in {e \in Dbs : Len(e) = 1}}

\* the remote databases with their accounts
AttachedDBs ==
    LET Accounts ==
            {l \in ListsOf([UserName : Names, Privilege : {"ReadOnly"}]) :
                 Distinct([i \in 1..Len(l) |-> l[i].UserName])}
            \cup {<<[UserName |-> <<"a">>, Privilege |-> "ReadWrite"]>>}
    IN  {l \in ListsOf([Name : Names, Status : {2}, Accounts : Accounts]) :
             Distinct([i \in 1..Len(l) |-> l[i].Name])}

\* the remote accounts, databases and ACLs of the instance
IdRemotes(o) ==
    LET accounts == IF o = "ModifyAccountDBAttachment"
                    THEN {<<>>, NamedItems(1, 1, <<"a">>, 2)}
                    ELSE IF o = "DescribeAccountDBAttachments"
                    THEN AttachedAccounts
                    ELSE {<<>>}
        dbs == IF o \in {"ModifyAccountDBAttachment", "DescribeDBDetailsById"}
               THEN {NamedItems(n, n, <<"a">>, st) :
                         n \in {0, 1, SQLSERVER_DEFAULT_LIMIT + 1},
                         st \in {2, SQLSERVER_DB_DELETING}}
               ELSE IF o = "DescribeAccountDBAttachments"
               THEN AttachedDBs
               ELSE {<<>>}
        acls == IF o \in {"DescribeAclByAclId", "DescribeAclByFilter"}
                THEN {<<>>, <<[PermissionType |-> <<"a">>,
                               Principal |-> <<"a">>,
                               Operation |-> <<"a">>]>>}
                ELSE {<<>>}
    IN  {r \in [DescribeAccounts : accounts, DescribeDBs : dbs,
                DescribeACL : acls] :
             o = "DescribeAccountDBAttachments"
                 => (r.DescribeAccounts = <<>> \/ r.DescribeDBs = <<>>)}

InitId ==
    /\ op \in IdOps
    /\ loc \in IdArgs(op)
    /\ remote \in IdRemotes(op)
    /\ nInst = 1
    /\ Start

NextId ==
    \/ DescribeSqlserverAccounts
    \/ DescribeSqlserverAccountsPage
    \/ DescribeSqlserverAccountById
    \/ DescribeSqlserverAccountByIdReturn
    \/ DescribeDBsOfInstance
    \/ DescribeDBsOfInstancePage
    \/ DescribeDBDetailsById
    \/ DescribeDBDetailsByIdReturn
    \/ ModifyAccountDBAttachment
    \/ ModifyAccountDBAttachmentDB
    \/ ModifyAccountDBAttachmentModify
    \/ ModifyAccountDBAttachmentReturn
    \/ DescribeAccountDBAttachments
    \/ DescribeAccountDBAttachmentsAccount
    \/ DescribeAccountDBAttachmentsDBs
    \/ WaitForTaskFinish
    \/ WaitForTaskFinishPoll
    \/ DescribeInstanceById
    \/ DescribeTopicById
    \/ DescribeTopicByIdAttempt
    \/ DescribeUserByUserId
    \/ DescribeUserByUserIdHas
    \/ DescribeUserByUserIdAttempt
    \/ DescribeAclByAclId
    \/ DescribeAclByAclIdReturn
    \/ DescribeAclByFilter
    \/ DescribeAclByFilterTopic
    \/ DescribeAclByFilterBegin
    \/ DescribeAclByFilterPage

SpecId == InitId /\ [][NextId]_vars

(***************************************************************************)
(* SqlserverService: the operations that make one retried remote call,     *)
(* and the submissions that wait for the flow the call started.            *)
(***************************************************************************)
\* one call of the closure of a retried request (ratelimit.Check, the
\* remote call, retryError on an error) under deadline timeout; a call
\* without an error ends the retry and the method goes on at position
\* next with the response (r = "nil": no response) in its locals
RetriedCall(action, a, r, timeout, next) ==
    /\ trace' = trace \o <<Check(action), Invoke(action, a, r)>>
    /\ IF r \in {"ok", "nil"}
       THEN /\ pc' = next
            /\ loc' = [response |-> r] @@ loc
            /\ elapsed' = 0
            /\ UNCHANGED <<stack, err>>
       ELSE IF RetryOver(r, timeout)
       THEN /\ err' = RetryErr(r, timeout)
            /\ elapsed' = 0
            /\ Return
       ELSE /\ elapsed' = elapsed + retryInterval
            /\ UNCHANGED <<pc, loc, stack, err>>
    /\ UNCHANGED <<env, offset, list, has, task>>

\* if response != nil && response.Response != nil { list = ...Set }; return
ListReturn(action) ==
    /\ list' = IF loc.response = "ok" THEN remote[action] ELSE <<>>
    /\ Return
    /\ UNCHANGED <<env, trace, offset, elapsed, has, err, task>>

DescribeZones ==
    /\ pc = "DescribeZones"
    /\ \E r \in Responses :
           RetriedCall("DescribeZones", <<>>, r, readRetryTimeout,
                       "DescribeZones_ret")

DescribeZonesReturn ==
    /\ pc = "DescribeZones_ret"
    /\ ListReturn("DescribeZones")

DescribeProductConfig ==
    /\ pc = "DescribeProductConfig"
    /\ \E r \in Responses :
           RetriedCall("DescribeProductConfig", [Zone |-> loc.zone], r,
                       readRetryTimeout, "DescribeProductConfig_ret")

DescribeProductConfigReturn ==
    /\ pc = "DescribeProductConfig_ret"
    /\ ListReturn("DescribeProductConfig")

\* the flow ids a submission may answer with: none (0) and one
FlowIds == {0, 7}

\* *response.Response.FlowId != 0
WaitsFor(flowId) == flowId # 0

\* the rest of a method after its retried submission: the wait for the
\* flow when there is a response (and, unless the method waits for any
\* flow id, the flow id is not 0), else return
SubmitWait(anyFlow, ret) ==
    /\ IF loc.response = "ok"
       THEN \E flowId \in FlowIds :
                IF anyFlow \/ WaitsFor(flowId)
                THEN CallWith("WaitForTaskFinish", [flowId |-> flowId], ret,
                              [flowId |-> flowId] @@ loc)
                ELSE Return
       ELSE Return
    /\ UNCHANGED <<env, trace, offset, list, elapsed, has, err, task>>

\* return me.WaitForTaskFinish(ctx, flowId)
WaitReturn ==
    /\ Return
    /\ UNCHANGED <<env, trace, offset, list, elapsed, has, err, task>>

CreateSqlserverDB ==
    /\ pc = "CreateSqlserverDB"
    /\ \E r \in Responses :
           RetriedCall("CreateDB",
                       [InstanceId |-> loc.instanceID, DBName |-> loc.dbname],
                       r, writeRetryTimeout, "CreateSqlserverDB_flow")

CreateSqlserverDBFlow ==
    /\ pc = "CreateSqlserverDB_flow"
    /\ SubmitWait(FALSE, "CreateSqlserverDB_ret")

CreateSqlserverDBReturn ==
    /\ pc = "CreateSqlserverDB_ret"
    /\ WaitReturn

DeleteSqlserverDB ==
    /\ pc = "DeleteSqlserverDB"
    /\ \E r \in Responses :
           RetriedCall("DeleteDB",
                       [InstanceId |-> loc.instanceId, Name |-> loc.name],
                       r, writeRetryTimeout, "DeleteSqlserverDB_flow")

DeleteSqlserverDBFlow ==
    /\ pc = "DeleteSqlserverDB_flow"
    /\ SubmitWait(TRUE, "DeleteSqlserverDB_ret")

DeleteSqlserverDBReturn ==
    /\ pc = "DeleteSqlserverDB_ret"
    /\ WaitReturn

\* ratelimit.Check; CreateAccount; the error, then the nil response, then
\* the wait for the flow
CreateSqlserverAccount ==
    /\ pc = "CreateSqlserverAccount"
    /\ \E r \in Responses, flowId \in FlowIds :
        /\ r # "ok" => flowId = 0
        /\ trace' = trace \o
               <<Check("CreateAccount"),
                 Invoke("CreateAccount",
                        [InstanceId |-> loc.instanceId,
                         UserName |-> loc.userName], r)>>
        /\ IF r = "ok"
           THEN /\ CallWith("WaitForTaskFinish", [flowId |-> flowId],
                            "CreateSqlserverAccount_ret",
                            [flowId |-> flowId] @@ loc)
                /\ err' = err
           ELSE /\ err' = IF r = "nil" THEN "nilresponse" ELSE r
                /\ Return
    /\ UNCHANGED <<env, offset, list, elapsed, has, task>>

CreateSqlserverAccountReturn ==
    /\ pc = "CreateSqlserverAccount_ret"
    /\ WaitReturn

(***************************************************************************)
(* SqlserverService: mutations followed by a poll of the resource inside   *)
(* resource.Retry(readRetryTimeout, ...).                                  *)
(***************************************************************************)
\* instance != nil && *instance.Status != 8 && != 4 && != 6
InstanceExists(instance) ==
    instance # Nil /\ instance.Status \notin {8, 4, 6}

DescribeSqlserverInstanceById ==
    /\ pc = "DescribeSqlserverInstanceById"
    /\ Call("DescribeSqlserverInstances", [instanceId |-> loc.instanceId],
            "DescribeSqlserverInstanceById_ret")
    /\ UNCHANGED <<env, trace, offset, list, elapsed, has, err, task>>

\* the checks of the length of instanceList
DescribeSqlserverInstanceByIdReturn ==
    /\ pc = "DescribeSqlserverInstanceById_ret"
    /\ IF err # "nil" \/ Len(list) = 0
       THEN /\ has' = FALSE
            /\ obj' = Nil
            /\ err' = err
       ELSE /\ err' = IF Len(list) > 1 THEN "morethanone" ELSE "nil"
            /\ obj' = list[1]
            /\ has' = InstanceExists(list[1])
    /\ Return
    /\ UNCHANGED <<env, trace, offset, list, elapsed, answer, out, statuses>>

\* the mutating call of a method that ignores the response: an error is
\* returned, else the poll begins
Mutate(action, a, r, retry) ==
    /\ trace' = trace \o <<Check(action), Invoke(action, a, r)>>
    /\ IF r \in {"ok", "nil"}
       THEN /\ Goto(retry)
            /\ err' = err
       ELSE /\ err' = r
            /\ Return
    /\ elapsed' = 0
    /\ UNCHANGED <<env, offset, list, has, task>>

\* a poll that looks again for a resource it did not find
PollOutcomeAbsentRetried(busy) ==
    IF err # "nil" THEN "nonretryable"
    ELSE IF ~has THEN "retryable"
    ELSE IF obj.Status = busy THEN "retryable"
    ELSE "nil"

\* what the closure of a poll returns for the looked-up resource: a
\* lookup error and an absent resource are not retried, status busy is
PollOutcome(busy) ==
    IF err # "nil" THEN "nonretryable"
    ELSE IF ~has THEN "nonretryable"
    ELSE IF obj.Status = busy THEN "retryable"
    ELSE "nil"

\* the end of one call of the closure of a poll that began at position retry
Poll(busy, retry) ==
    /\ CASE PollOutcome(busy) = "nil" ->
              /\ err' = "nil"
              /\ elapsed' = 0
              /\ Return
         [] PollOutcome(busy) = "nonretryable" ->
              /\ err' = IF err # "nil" THEN err ELSE "cannotfind"
              /\ elapsed' = 0
              /\ Return
         [] OTHER ->
              IF Expired(readRetryTimeout)
              THEN /\ err' = "timeout"
                   /\ elapsed' = 0
                   /\ Return
              ELSE /\ elapsed' = elapsed + retryInterval
                   /\ Goto(retry)
                   /\ err' = err
    /\ UNCHANGED <<env, trace, offset, list, has, task>>

UpgradeSqlserverInstance ==
    /\ pc = "UpgradeSqlserverInstance"
    /\ \E r \in Responses :
           Mutate("UpgradeDBInstance", [InstanceId |-> loc.instanceId], r,
                  "UpgradeSqlserverInstance_retry")

\* instance, has, err := me.DescribeSqlserverInstanceById(ctx, instanceId)
UpgradeSqlserverInstanceLookup ==
    /\ pc = "UpgradeSqlserverInstance_retry"
    /\ Call("DescribeSqlserverInstanceById", [instanceId |-> loc.instanceId],
            "UpgradeSqlserverInstance_poll")
    /\ UNCHANGED <<env, trace, offset, list, elapsed, has, err, task>>

\* if int(*instance.Status) == 9 { return resource.RetryableError(...) }
UpgradeSqlserverInstancePoll ==
    /\ pc = "UpgradeSqlserverInstance_poll"
    /\ Poll(9, "UpgradeSqlserverInstance_retry")

ResetSqlserverAccountPassword ==
    /\ pc = "ResetSqlserverAccountPassword"
    /\ \E r \in Responses :
           Mutate("ResetAccountPassword",
                  [InstanceId |-> loc.instanceId, UserName |-> loc.userName],
                  r, "ResetSqlserverAccountPassword_retry")

\* instance, has, err := me.DescribeSqlserverAccountById(ctx, ...)
ResetSqlserverAccountPasswordLookup ==
    /\ pc = "ResetSqlserverAccountPassword_retry"
    /\ Call("DescribeSqlserverAccountById",
            [instanceId |-> loc.instanceId, userName |-> loc.userName],
            "ResetSqlserverAccountPassword_poll")
    /\ UNCHANGED <<env, trace, offset, list, elapsed, has, err, task>>

\* if int(*instance.Status) == 4 { return resource.RetryableError(...) }
ResetSqlserverAccountPasswordPoll ==
    /\ pc = "ResetSqlserverAccountPassword_poll"
    /\ Poll(4, "ResetSqlserverAccountPassword_retry")

\* a delete that reports every failure of DeleteAccount
DeleteAccountErrForwarded(r) == r

\* the error DeleteSqlserverAccount returns when DeleteAccount failed with
\* r: an instance that is not found is not an error
DeleteAccountErr(r) == IF r = "notfound" THEN "nil" ELSE r

DeleteSqlserverAccount ==
    /\ pc = "DeleteSqlserverAccount"
    /\ \E r \in Responses :
        /\ trace' = trace \o
               <<Check("DeleteAccount"),
                 Invoke("DeleteAccount",
                        [InstanceId |-> loc.instanceId,
                         UserNames |-> <<loc.userName>>], r)>>
        /\ IF r \in {"ok", "nil"}
           THEN /\ Goto("DeleteSqlserverAccount_retry")
                /\ err' = err
           ELSE /\ err' = DeleteAccountErr(r)
                /\ Return
    /\ elapsed' = 0
    /\ UNCHANGED <<env, offset, list, has, task>>

\* instance, has, err := me.DescribeSqlserverAccountById(ctx, ...)
DeleteSqlserverAccountLookup ==
    /\ pc = "DeleteSqlserverAccount_retry"
    /\ Call("DescribeSqlserverAccountById",
            [instanceId |-> loc.instanceId, userName |-> loc.userName],
            "DeleteSqlserverAccount_poll")
    /\ UNCHANGED <<env, trace, offset, list, elapsed, has, err, task>>

\* the status of an account that is being deleted
AccountDeleting == 0 - 1

\* a poll that takes any account it still finds for one being deleted
DeletePollOutcomeWaits ==
    IF err # "nil" THEN "nonretryable"
    ELSE IF ~has THEN "nil"
    ELSE "retryable"

\* what the closure of the poll of DeleteSqlserverAccount returns for the
\* looked-up account: gone is success, deleting is retried, any other
\* status and a lookup error are not
DeletePollOutcome ==
    IF err # "nil" THEN "nonretryable"
    ELSE IF ~has THEN "nil"
    ELSE IF obj.Status = AccountDeleting THEN "retryable"
    ELSE "nonretryable"

DeleteSqlserverAccountPoll ==
    /\ pc = "DeleteSqlserverAccount_poll"
    /\ CASE DeletePollOutcome = "nil" ->
              /\ err' = "nil"
              /\ elapsed' = 0
              /\ Return
         [] DeletePollOutcome = "nonretryable" ->
              /\ err' = IF err # "nil" THEN err ELSE "invalid"
              /\ elapsed' = 0
              /\ Return
         [] OTHER ->
              IF Expired(readRetryTimeout)
              THEN /\ err' = "timeout"
                   /\ elapsed' = 0
                   /\ Return
              ELSE /\ elapsed' = elapsed + retryInterval
                   /\ Goto("DeleteSqlserverAccount_retry")
                   /\ err' = err
    /\ UNCHANGED <<env, trace, offset, list, has, task>>

(***************************************************************************)
(* CkafkaService: the mutating calls, each retried under                   *)
(* writeRetryTimeout, and OperateStatusCheck.                              *)
(***************************************************************************)
\* the operate result of a response: none, ReturnCode "0", another code
OperateResults == {Nil, [ReturnCode |-> "0"], [ReturnCode |-> "1"]}

\* if result == nil { return false }; return *result.ReturnCode == "0"
OperateStatusCheck(result) ==
    IF result = Nil THEN FALSE ELSE result.ReturnCode = "0"

\* one call of the closure of a ckafka mutating call (no ratelimit.Check)
\* and, when the retry is over, the rest of the method. err is the
\* variable resource.Retry's result was assigned to: it is nil where the
\* failure message is formatted with err.Error(), which panics
Operate(action, a, r, result) ==
    /\ trace' = trace \o <<Invoke(action, a, r)>>
    /\ IF r = "ok"
       THEN /\ obj' = result
            /\ elapsed' = 0
            /\ err' = "nil"
            /\ IF OperateStatusCheck(result) THEN Return ELSE Panic
       ELSE /\ result = Nil
            /\ obj' = obj
            /\ IF r = "nil"
               THEN /\ err' = "nil"
                    /\ elapsed' = 0
                    /\ Return
               ELSE IF RetryOver(r, writeRetryTimeout)
               THEN /\ err' = RetryErr(r, writeRetryTimeout)
                    /\ elapsed' = 0
                    /\ Return
               ELSE /\ elapsed' = elapsed + retryInterval
                    /\ UNCHANGED <<pc, loc, stack, err>>
    /\ UNCHANGED <<env, offset, list, has, answer, out, statuses>>

\* the decoding of the id of a delete: a wrong number of parts is an error
DecodeFor(id, arity, retry) ==
    /\ IF BadArity(Split(id, FILED_SP), arity)
       THEN /\ err' = "malformed"
            /\ Return
       ELSE /\ Goto(retry)
            /\ err' = err
    /\ UNCHANGED <<env, trace, offset, list, elapsed, has, task>>

CreateUser ==
    /\ pc = "CreateUser"
    /\ \E r \in Responses, result \in OperateResults :
           Operate("CreateUser",
                   [InstanceId |-> loc.instanceId, Name |-> loc.user],
                   r, result)

ModifyPassword ==
    /\ pc = "ModifyPassword"
    /\ \E r \in Responses, result \in OperateResults :
           Operate("ModifyPassword",
                   [InstanceId |-> loc.instanceId, Name |-> loc.user],
                   r, result)

DeleteUser ==
    /\ pc = "DeleteUser"
    /\ DecodeFor(loc.userId, 2, "DeleteUser_retry")

DeleteUserAttempt ==
    /\ pc = "DeleteUser_retry"
    /\ \E r \in Responses, result \in OperateResults :
           LET items == Split(loc.userId, FILED_SP)
           IN  Operate("DeleteUser",
                       [InstanceId |-> items[1], Name |-> items[2]],
                       r, result)

CreateAcl ==
    /\ pc = "CreateAcl"
    /\ \E r \in Responses, result \in OperateResults :
           Operate("CreateAcl",
                   [InstanceId |-> loc.instanceId,
                    ResourceName |-> loc.resourceName], r, result)

DeleteAcl ==
    /\ pc = "DeleteAcl"
    /\ DecodeFor(loc.aclId, 7, "DeleteAcl_retry")

DeleteAclAttempt ==
    /\ pc = "DeleteAcl_retry"
    /\ \E r \in Responses, result \in OperateResults :
           LET items == Split(loc.aclId, FILED_SP)
           IN  Operate("DeleteAcl",
                       [InstanceId |-> items[1], ResourceName |-> items[7]],
                       r, result)

(***************************************************************************)
(* The single calls, the submissions, the polls and the ckafka mutating    *)
(* calls, each invoked by the caller.                                      *)
(***************************************************************************)
CallOps == {"DescribeZones", "DescribeProductConfig", "CreateSqlserverDB",
            "DeleteSqlserverDB", "CreateSqlserverAccount",
            "UpgradeSqlserverInstance", "ResetSqlserverAccountPassword",
            "DeleteSqlserverAccount", "DescribeSqlserverInstanceById",
            "WaitForTaskFinish", "CreateUser", "ModifyPassword",
            "DeleteUser", "CreateAcl", "DeleteAcl"}

CallArgs(o) ==
    CASE o = "DescribeZones" -> {[ctx |-> <<>>]}
      [] o = "DescribeProductConfig" -> {[zone |-> <<"a">>]}
      [] o = "CreateSqlserverDB" ->
             {[instanceID |-> <<"a">>, dbname |-> <<"a">>]}
      [] o = "DeleteSqlserverDB" ->
             {[instanceId |-> <<"a">>, name |-> <<"a">>]}
      [] o \in {"CreateSqlserverAccount", "ResetSqlserverAccountPassword",
                "DeleteSqlserverAccount"} ->
             {[instanceId |-> <<"a">>, userName |-> <<"a">>]}
      [] o \in {"UpgradeSqlserverInstance", "DescribeSqlserverInstanceById"} ->
             {[instanceId |-> <<"a">>]}
      [] o = "WaitForTaskFinish" -> {[flowId |-> 7]}
      [] o \in {"CreateUser", "ModifyPassword"} ->
             {[instanceId |-> <<"a">>, user |-> <<"a">>]}
      [] o = "DeleteUser" -> [userId : Strings \cup {<<"a", "#", "a">>}]
      [] o = "CreateAcl" ->
             {[instanceId |-> <<"a">>, resourceName |-> <<"a">>]}
      [] o = "DeleteAcl" -> [aclId : AclIds]

\* the remote instances and accounts the polls look up, and the zones
CallRemotes(o) ==
    LET instances ==
            IF o \in {"UpgradeSqlserverInstance",
                      "DescribeSqlserverInstanceById"}
            THEN UNION {[1..n -> [Status : {2, 9, 8}]] : n \in 0..MaxLen}
            ELSE {<<>>}
        accounts ==
            IF o = "ResetSqlserverAccountPassword"
            THEN {<<>>} \cup {NamedItems(n, n, <<"a">>, st) :
                                  n \in 1..MaxLen, st \in {2, 4}}
            ELSE IF o = "DeleteSqlserverAccount"
            THEN {<<>>} \cup {NamedItems(n, n, <<"a">>, st) :
                                  n \in 1..MaxLen,
                                  st \in {AccountDeleting, 2}}
            ELSE {<<>>}
    IN  [DescribeDBInstances : instances, DescribeAccounts : accounts,
         DescribeZones : {<<1, 2>>}, DescribeProductConfig : {<<1>>}]

\* the remote side between two lookups of a poll: the resource the poll
\* waits for may have changed when the closure looks it up again
RemoteChange ==
    /\ pc \in {"UpgradeSqlserverInstance_retry",
               "ResetSqlserverAccountPassword_retry",
               "DeleteSqlserverAccount_retry"}
    /\ elapsed > 0
    /\ remote' \in CallRemotes(op) \ {remote}
    /\ UNCHANGED <<op, nInst, other, pc, loc, stack, trace, offset, list,
                   elapsed, has, err, task>>

InitCall ==
    /\ op \in CallOps
    /\ loc \in CallArgs(op)
    /\ remote \in CallRemotes(op)
    /\ nInst = 1
    /\ Start

NextCall ==
    \/ DescribeZones
    \/ DescribeZonesReturn
    \/ DescribeProductConfig
    \/ DescribeProductConfigReturn
    \/ CreateSqlserverDB
    \/ CreateSqlserverDBFlow
    \/ CreateSqlserverDBReturn
    \/ DeleteSqlserverDB
    \/ DeleteSqlserverDBFlow
    \/ DeleteSqlserverDBReturn
    \/ CreateSqlserverAccount
    \/ CreateSqlserverAccountReturn
    \/ DescribeSqlserverInstances
    \/ DescribeSqlserverInstancesPage
    \/ DescribeSqlserverInstanceById
    \/ DescribeSqlserverInstanceByIdReturn
    \/ DescribeSqlserverAccounts
    \/ DescribeSqlserverAccountsPage
    \/ DescribeSqlserverAccountById
    \/ DescribeSqlserverAccountByIdReturn
    \/ UpgradeSqlserverInstance
    \/ UpgradeSqlserverInstanceLookup
    \/ UpgradeSqlserverInstancePoll
    \/ ResetSqlserverAccountPassword
    \/ ResetSqlserverAccountPasswordLookup
    \/ ResetSqlserverAccountPasswordPoll
    \/ DeleteSqlserverAccount
    \/ DeleteSqlserverAccountLookup
    \/ DeleteSqlserverAccountPoll
    \/ RemoteChange
    \/ WaitForTaskFinish
    \/ WaitForTaskFinishPoll
    \/ CreateUser
    \/ ModifyPassword
    \/ DeleteUser
    \/ DeleteUserAttempt
    \/ CreateAcl
    \/ DeleteAcl
    \/ DeleteAclAttempt

SpecCall == InitCall /\ [][NextCall]_vars

\* the poll loop runs on: resource.Retry calls the closure again after
\* its pause, and every status query returns
SpecCallFair == SpecCall /\ WF_vars(WaitForTaskFinishPoll)

(***************************************************************************)
(* Two invocations of one method on the same service value, running        *)
(* concurrently.  The registers are those of the invocation that runs;     *)
(* other holds the registers of the one that waits.  A method keeps its    *)
(* request, cursor and result in locals, so a switch exchanges all of      *)
(* them; the remote side is what the two invocations share.                *)
(***************************************************************************)
\* the registers of the running invocation
Context ==
    [pc |-> pc, loc |-> loc, stack |-> stack, trace |-> trace,
     offset |-> offset, list |-> list, elapsed |-> elapsed, has |-> has,
     err |-> err, answer |-> answer, out |-> out, obj |-> obj,
     statuses |-> statuses]

\* the invocation with registers c has made a request and not returned
InFlight(c) == c.trace # <<>> /\ c.pc \notin {"done", "panic"}

\* a cursor kept in a variable of the service, shared by its invocations
SharedOffset(c) == offset

\* var offset, limit int64 = 0, 20: the cursor is a local of the
\* invocation, the one it left is the one it finds
OwnOffset(c) == c.offset

\* the scheduler switches to the other invocation; a panic ends the process
Yield ==
    /\ other # Nil
    /\ pc # "panic"
    /\ other.pc \notin {"done", "panic"}
    /\ other' = Context @@
                [mixed |-> other.mixed \/ (InFlight(Context) /\ InFlight(other))]
    /\ pc' = other.pc
    /\ loc' = other.loc
    /\ stack' = other.stack
    /\ trace' = other.trace
    /\ offset' = OwnOffset(other)
    /\ list' = other.list
    /\ elapsed' = other.elapsed
    /\ has' = other.has
    /\ err' = other.err
    /\ answer' = other.answer
    /\ out' = other.out
    /\ obj' = other.obj
    /\ statuses' = other.statuses
    /\ UNCHANGED <<op, remote, nInst>>

\* the arguments of the first and of the second invocation
PairArgs(o) ==
    IF o = "WaitForTaskFinish"
    THEN <<[flowId |-> 7], [flowId |-> 8]>>
    ELSE <<[instanceId |-> <<"a">>], [instanceId |-> <<"#">>]>>

\* the sizes of the remote collection the two scans page through
PairSizes(o) ==
    IF o = "WaitForTaskFinish" THEN {0}
    ELSE {0, InstancesLimit + 1, MaxPages * InstancesLimit}

InitPair ==
    /\ op \in {"DescribeSqlserverInstances", "WaitForTaskFinish"}
    /\ loc = PairArgs(op)[1]
    /\ \E n \in PairSizes(op) :
           remote = [a \in {"DescribeDBInstances"} |-> RemoteItems(n)]
    /\ nInst = 1
    /\ Begin
    /\ other = [pc |-> op, loc |-> PairArgs(op)[2], stack |-> <<>>,
                trace |-> <<>>, offset |-> 0, list |-> <<>>, elapsed |-> 0,
                has |-> FALSE, err |-> "nil",
                answer |-> [DealNames |-> <<>>, Deals |-> <<>>],
                out |-> "", obj |-> Nil, statuses |-> <<>>, mixed |-> FALSE]

NextPair ==
    \/ DescribeSqlserverInstances
    \/ DescribeSqlserverInstancesPage
    \/ WaitForTaskFinish
    \/ WaitForTaskFinishPoll
    \/ Yield

SpecPair == InitPair /\ [][NextPair]_vars

(***************************************************************************)
(* Claims about the scans (checked under SpecScan).                        *)
(***************************************************************************)
\* the offset/limit scans whose loop tests the length of the page of items
PageScans == ScanOps \ {"DescribeDBsOfInstance"}

\* every remote call made so far answered with a payload and no error
ErrorFree ==
    \A i \in 1..Len(trace) : trace[i].e = "call" => trace[i].r = "ok"

\* the list requests the scan made
ListCalls == CallsOf(ScanAction(op))

\* the scan has returned after an error-free run that requested a page
ScanDone ==
    /\ pc = "done"
    /\ op \in PageScans
    /\ ErrorFree
    /\ Len(ListCalls) > 0

\* C1: an error-free offset/limit scan over a remote collection of n items
\* returns, without an error, exactly the n items in remote order, each of
\* them once.
C1_ScanReturnsAll ==
    ScanDone => /\ err = "nil"
                /\ list = remote[ScanAction(op)]

\* an error-free ckafka ACL scan has returned more than two pages of items
C1_Witness ==
    /\ ScanDone
    /\ op = "DescribeAclByFilter"
    /\ Len(list) > 2 * CKAFKA_DESCRIBE_LIMIT
    /\ err = "nil"

Ceil(a, b) == (a + b - 1) \div b

\* the number of round trips of a scan over n items with page size p
RoundTrips(n, p) == IF n % p = 0 THEN Ceil(n + 1, p) ELSE Ceil(n, p)

\* C2: an error-free offset/limit scan over n items with page size p
\* issues ceil((n+1)/p) list requests when n is a multiple of p and
\* ceil(n/p) otherwise: an exactly full last page costs one more request.
C2_RoundTrips ==
    ScanDone =>
        Len(ListCalls) = RoundTrips(Len(remote[ScanAction(op)]), ScanLimit(op))

\* an error-free scan of exactly two full pages of instances has made its
\* third request
C2_Witness ==
    /\ ScanDone
    /\ op = "DescribeSqlserverInstances"
    /\ Len(remote["DescribeDBInstances"]) = 2 * InstancesLimit
    /\ Len(ListCalls) = 3

\* C3: DescribeDBsOfInstance returns every database of the instance: a
\* full page of DB details is followed by another request, so that an
\* error-free traversal of one instance ends with all its databases.
C3_AllDatabases ==
    ( /\ pc = "done"
      /\ op = "DescribeDBsOfInstance"
      /\ ErrorFree
      /\ nInst = 1
      /\ err = "nil" )
        => list = remote["DescribeDBs"]

(***************************************************************************)
(* Claims about the task workflow (checked under SpecTask).                *)
(***************************************************************************)
Last(q) == q[Len(q)]

\* the status queries made so far
Polls == Len(CallsOf("DescribeFlowStatus"))

\* the method the caller invoked has returned
Done == pc = "done"

\* C4: a status code outside the table (neither running nor failed, and not
\* the success code) is treated as Pending: WaitForTaskFinish does not
\* return success on it.
C4_UnrecognizedIsPending ==
    ( /\ Done
      /\ statuses # <<>>
      /\ Last(statuses) \notin {SQLSERVER_TASK_SUCCESS, SQLSERVER_TASK_RUNNING,
                                SQLSERVER_TASK_FAIL} )
        => err # "nil"

\* C5: the first status query that reports the failed code, after any
\* number of running reports, ends WaitForTaskFinish with an error: it is
\* the last status query that is made.
C5_FailedIsImmediate ==
    \A i \in 1..Len(statuses) :
        statuses[i] = SQLSERVER_TASK_FAIL =>
            /\ i = Len(statuses)
            /\ Polls = i
            /\ pc # "WaitForTaskFinish_retry"
            /\ err = "failed"

\* the failed code was reported after three running reports
C5_Witness ==
    /\ Done
    /\ statuses = <<SQLSERVER_TASK_RUNNING, SQLSERVER_TASK_RUNNING,
                    SQLSERVER_TASK_RUNNING, SQLSERVER_TASK_FAIL>>
    /\ err = "failed"

\* the submission and the deal lookup answered with exactly one deal name,
\* one deal and one instance id (a run of GetInfoFromDeal starts from the
\* deal name)
OneDeal ==
    /\ op \in {"CreateSqlserverInstance", "CreateSqlserverReadonlyInstance"}
           => Len(answer.DealNames) = 1
    /\ Len(answer.Deals) = 1
    /\ Len(answer.Deals[1].InstanceIdSet) = 1

\* the flow was reported running k times and then succeeded
RunningThenSucceeded ==
    /\ statuses # <<>>
    /\ Last(statuses) = SQLSERVER_TASK_SUCCESS
    /\ \A j \in 1..(Len(statuses) - 1) : statuses[j] = SQLSERVER_TASK_RUNNING

\* C6: when the submission yields one deal, the deal one instance id and a
\* flow id, and the flow is reported running for the first k polls and
\* succeeded on poll k+1, the call returns that instance id with a nil
\* error after exactly k+1 status queries.
C6_EndToEnd ==
    ( /\ Done
      /\ op \in {"CreateSqlserverInstance", "CreateSqlserverReadonlyInstance",
                 "GetInfoFromDeal"}
      /\ OneDeal
      /\ RunningThenSucceeded )
        => /\ err = "nil"
           /\ out = answer.Deals[1].InstanceIdSet[1]
           /\ Polls = Len(statuses)

\* CreateSqlserverInstance returned the instance id after three running
\* reports and a succeeded one: four polls
C6_Witness ==
    /\ Done
    /\ op = "CreateSqlserverInstance"
    /\ OneDeal
    /\ statuses = <<SQLSERVER_TASK_RUNNING, SQLSERVER_TASK_RUNNING,
                    SQLSERVER_TASK_RUNNING, SQLSERVER_TASK_SUCCESS>>
    /\ Polls = 4
    /\ out = "ins-1"
    /\ err = "nil"

\* the submission or the deal lookup answered, and not with exactly one
\* deal name, one deal and one instance id
NotExactlyOne ==
    \/ /\ op \in {"CreateSqlserverInstance", "CreateSqlserverReadonlyInstance"}
       /\ \E i \in 1..Len(trace) :
              /\ trace[i].e = "call"
              /\ trace[i].action \in {"CreateDBInstances",
                                      "CreateReadOnlyDBInstances"}
              /\ trace[i].r = "ok"
       /\ Len(answer.DealNames) # 1
    \/ /\ \E i \in 1..Len(trace) :
              /\ trace[i].e = "call"
              /\ trace[i].action = "DescribeOrders"
              /\ trace[i].r = "ok"
       /\ \/ Len(answer.Deals) # 1
          \/ Len(answer.Deals[1].InstanceIdSet) # 1

\* C7: exactly one resource identifier is accepted: with zero or several
\* deal names, deals or instance ids the call returns an error and starts
\* no status polling.
C7_ExactlyOneIdentifier ==
    NotExactlyOne =>
        /\ Polls = 0
        /\ pc # "panic"
        /\ Done => err # "nil"

(***************************************************************************)
(* Claims about composite ids (checked under SpecId).                      *)
(***************************************************************************)
\* the arguments (and locals) of the method the caller invoked
TopLoc == IF stack = <<>> THEN loc ELSE stack[Len(stack)].loc

\* the methods that decode an id they are handed, the id and its arity
Decoders == {"DescribeDBDetailsById", "DescribeUserByUserId",
             "DescribeTopicById", "DescribeAclByAclId"}

IdArg ==
    CASE op = "DescribeDBDetailsById" -> TopLoc.dbId
      [] op = "DescribeUserByUserId" -> TopLoc.userId
      [] op = "DescribeTopicById" -> TopLoc.topicId
      [] op = "DescribeAclByAclId" -> TopLoc.aclId

Arity == IF op = "DescribeAclByAclId" THEN 7 ELSE 2

\* no remote action was called
NoRemoteCall == \A i \in 1..Len(trace) : trace[i].e # "call"

\* C8: decoding a composite id fails with an error whenever the number of
\* parts differs from the arity of the resource kind (2 for a DB id, a
\* user id and a topic id, 7 for an ACL id), for too few and for too many
\* parts, and no remote call is made for such an id.
C8_ArityChecked ==
    ( /\ op \in Decoders
      /\ Len(Split(IdArg, FILED_SP)) # Arity )
        => /\ NoRemoteCall
           /\ Done => err # "nil"

DelimFree(x) == ~Contains(x, FILED_SP)

\* the requests of remote action a named the instance i
CallsName(a, i) ==
    \A k \in 1..Len(trace) :
        (trace[k].e = "call" /\ trace[k].action = a)
            => trace[k].a.InstanceId = i

\* C9: for parts (instanceId, name) without the delimiter, the id
\* instanceId + FILED_SP + name that ModifyAccountDBAttachment and
\* DescribeAclByFilter build is decoded by DescribeDBDetailsById and
\* DescribeTopicById into the same two parts: the decoding does not fail
\* and the lookup is made for that instance and that name.
C9_RoundTrip ==
    /\ ( /\ op = "ModifyAccountDBAttachment"
         /\ DelimFree(TopLoc.instanceId)
         /\ DelimFree(TopLoc.dbName) )
           => /\ CallsName("DescribeDBs", TopLoc.instanceId)
              /\ pc = "DescribeDBDetailsById_ret"
                     => /\ loc.instanceId = TopLoc.instanceId
                        /\ loc.dbName = TopLoc.dbName
              /\ pc = "ModifyAccountDBAttachment_db" => err # "malformed"
    /\ ( /\ op = "DescribeAclByFilter"
         /\ DelimFree(TopLoc.instance_id)
         /\ DelimFree(TopLoc.resource_name) )
           => /\ CallsName("DescribeTopicAttributes", TopLoc.instance_id)
              /\ pc = "DescribeTopicById_retry"
                     => /\ loc.instanceId = TopLoc.instance_id
                        /\ loc.topicName = TopLoc.resource_name
              /\ pc = "DescribeAclByFilter_topic" => err # "malformed"

\* ModifyAccountDBAttachment found database "a" of instance "aa" through
\* the id it built
C9_Witness ==
    /\ op = "ModifyAccountDBAttachment"
    /\ pc = "ModifyAccountDBAttachment_db"
    /\ loc.instanceId = <<"a", "a">>
    /\ loc.dbName = <<"a">>
    /\ Len(CallsOf("DescribeDBs")) > 0
    /\ has
    /\ err = "nil"

\* C10: an id is never built from a part that contains the delimiter and
\* then used: with such an instanceId, dbName or resourceName, neither
\* DescribeDBDetailsById nor DescribeTopicById is handed an id.
C10_EncodeRejectsDelimiter ==
    /\ ( /\ op = "ModifyAccountDBAttachment"
         /\ ~ (DelimFree(TopLoc.instanceId) /\ DelimFree(TopLoc.dbName)) )
           => pc # "DescribeDBDetailsById"
    /\ ( /\ op = "DescribeAclByFilter"
         /\ ~ (DelimFree(TopLoc.instance_id) /\ DelimFree(TopLoc.resource_name)) )
           => pc # "DescribeTopicById"

(***************************************************************************)
(* Claims about the single calls, the submissions and the polls (checked   *)
(* under SpecCall).                                                        *)
(***************************************************************************)
\* the lookups a poll has made: each begins with a list request at offset 0
Lookups(action) ==
    Len(SelectSeq(CallsOf(action), LAMBDA x : x.a.Offset = 0))

\* the position at which the closure of the poll of o classifies a lookup
PollAt(o) ==
    CASE o = "UpgradeSqlserverInstance" -> "UpgradeSqlserverInstance_poll"
      [] o = "ResetSqlserverAccountPassword" ->
             "ResetSqlserverAccountPassword_poll"
      [] OTHER -> "none"

LookupAction(o) ==
    IF o = "UpgradeSqlserverInstance" THEN "DescribeDBInstances"
    ELSE "DescribeAccounts"

\* the first lookup of the poll has returned an error or no resource
FirstLookupFatal ==
    /\ pc = PollAt(op)
    /\ Lookups(LookupAction(op)) = 1
    /\ (err # "nil" \/ ~has)

\* the step is the first status query of WaitForTaskFinish, answered with
\* an error
FirstQueryFatal ==
    /\ op = "WaitForTaskFinish"
    /\ pc = "WaitForTaskFinish_retry"
    /\ Polls = 0
    /\ Polls' = 1
    /\ CallsOf("DescribeFlowStatus")'[1].r \notin {"ok", "nil"}

\* C11: a retry loop whose action reports a non-retryable error on its
\* first call returns that error without a retry: an error of the first
\* DescribeFlowStatus of WaitForTaskFinish, and an error or an absent
\* resource at the first lookup of the polls of UpgradeSqlserverInstance
\* and ResetSqlserverAccountPassword, end the method with an error in
\* that very step, after one invocation of the action.
C11_FatalFirstNoRetry ==
    [][ /\ FirstQueryFatal
           => /\ pc' = "done"
              /\ err' = CallsOf("DescribeFlowStatus")'[1].r
        /\ FirstLookupFatal
           => /\ pc' = "done"
              /\ err' = (IF err # "nil" THEN err ELSE "cannotfind")
              /\ trace' = trace ]_vars

\* UpgradeSqlserverInstance ended after one lookup that found no instance
C11_Witness ==
    /\ op = "UpgradeSqlserverInstance"
    /\ Done
    /\ Lookups("DescribeDBInstances") = 1
    /\ ~has
    /\ err = "cannotfind"

(***************************************************************************)
(* Claims about responses without a payload and about errors.              *)
(***************************************************************************)
\* a page request of the scan was answered without an error and without a
\* payload
PageWithoutPayload ==
    \E i \in 1..Len(trace) :
        /\ trace[i].e = "call"
        /\ trace[i].action = ScanAction(op)
        /\ trace[i].r = "nil"

\* C12: in every paginated scan a page call that reports success but
\* carries no payload makes the scan return an error; it is never taken
\* for an empty last page (checked under SpecScan).
C12_NoPayloadIsFatal ==
    (op \in ScanOps /\ PageWithoutPayload) => (Done /\ err # "nil")

\* the single-call operations and the remote action each one calls
SingleCalls == {"DescribeZones", "DescribeProductConfig",
                "CreateSqlserverDB", "DeleteSqlserverDB",
                "WaitForTaskFinish"}

SingleAction(o) ==
    CASE o = "CreateSqlserverDB" -> "CreateDB"
      [] o = "DeleteSqlserverDB" -> "DeleteDB"
      [] o = "WaitForTaskFinish" -> "DescribeFlowStatus"
      [] OTHER -> o

\* the call of the operation was answered with (nil response, nil error)
EmptyResponse ==
    \E i \in 1..Len(trace) :
        /\ trace[i].e = "call"
        /\ trace[i].action = SingleAction(op)
        /\ trace[i].r = "nil"

\* C13: a single-call operation whose remote call returns (nil, nil)
\* returns a non-nil error and never reports success (checked under
\* SpecCall).
C13_EmptyResponseIsFatal ==
    (op \in SingleCalls /\ EmptyResponse)
        => /\ pc # "panic"
           /\ Done => err # "nil"

\* the submissions that start a flow and wait for it
Submissions == {"CreateSqlserverAccount", "CreateSqlserverDB",
                "DeleteSqlserverDB"}

\* the last status query asked for flow id f and reported a status that
\* is neither running nor failed
FlowFinished(f) ==
    /\ statuses # <<>>
    /\ Last(statuses) \notin {SQLSERVER_TASK_RUNNING, SQLSERVER_TASK_FAIL}
    /\ Last(CallsOf("DescribeFlowStatus")).a.FlowId = f

\* C14: a submission returns a nil error only after a DescribeFlowStatus
\* query for the flow of the submission has reported a status that is
\* neither running nor failed (checked under SpecCall).
C14_BlocksUntilTerminal ==
    (op \in Submissions /\ Done /\ err = "nil")
        => /\ Polls > 0
           /\ FlowFinished(TopLoc.flowId)

\* C15: every call of a remote action, each retry and each poll included,
\* comes right after a ratelimit.Check on the name of that action
\* (checked under SpecCall).
C15_RateLimitedFirst ==
    \A i \in 1..Len(trace) :
        trace[i].e = "call"
            => /\ i > 1
               /\ trace[i - 1] = Check(trace[i].action)

\* the errors a remote call may return
RemoteErrors == Responses \ {"ok", "nil"}

\* C16: when the ModifyAccountPrivilege call of ModifyAccountDBAttachment
\* returns an error, with or without a response, the method returns that
\* error and not another one (checked under SpecId).
C16_CauseSurfaced ==
    \A i \in 1..Len(trace) :
        ( /\ op = "ModifyAccountDBAttachment"
          /\ trace[i].e = "call"
          /\ trace[i].action = "ModifyAccountPrivilege"
          /\ trace[i].r \in RemoteErrors )
            => /\ Done
               /\ err = trace[i].r

\* the existence check of the instance ended with an error: its last
\* request was answered with one
InstanceCheckFailed ==
    /\ CallsOf("DescribeInstanceAttributes") # <<>>
    /\ Last(CallsOf("DescribeInstanceAttributes")).r \in {"fatal", "transient"}
    /\ \A i \in 1..Len(stack) : stack[i].pc # "DescribeInstanceById"
    /\ pc # "DescribeInstanceById"

\* C17: when the existence check of the instance inside
\* DescribeUserByUserId, DescribeUserByFilter or DescribeAclByFilter ends
\* with an error, the caller gets a non-nil error and not the outcome of
\* an absent instance (checked under SpecId).
C17_CheckErrorForwarded ==
    ( /\ op \in {"DescribeUserByUserId", "DescribeUserByFilter",
                 "DescribeAclByFilter"}
      /\ InstanceCheckFailed
      /\ Done )
        => err # "nil"

\* the ckafka mutating calls
CkafkaMutations == {"CreateUser", "ModifyPassword", "DeleteUser",
                    "CreateAcl", "DeleteAcl"}

\* the mutating call was answered with a response that has a payload
OperateAnswered ==
    /\ CallsOf(op) # <<>>
    /\ Last(CallsOf(op)).r = "ok"

\* C18: a ckafka mutating call whose response carries a nil operate
\* result or a ReturnCode other than "0" returns a non-nil error, and it
\* returns nil when the ReturnCode is "0" (checked under SpecCall).
C18_OperateResultChecked ==
    (op \in CkafkaMutations /\ OperateAnswered)
        => /\ Done
           /\ (err = "nil") <=> (obj # Nil /\ obj.ReturnCode = "0")

(***************************************************************************)
(* Claims about the retry loops (checked under SpecCall and, for           *)
(* termination, SpecCallFair).                                             *)
(***************************************************************************)
\* every status reported so far is the running code
AllRunning == \A i \in 1..Len(statuses) : statuses[i] = SQLSERVER_TASK_RUNNING

\* WaitForTaskFinish has returned success, a remote or task error, or a
\* timeout after the deadline
TaskReturned ==
    /\ Done
    /\ \/ /\ err = "nil"
          /\ statuses # <<>>
          /\ Last(statuses) \notin {SQLSERVER_TASK_RUNNING,
                                    SQLSERVER_TASK_FAIL}
       \/ /\ err = "failed"
          /\ statuses # <<>>
          /\ Last(statuses) = SQLSERVER_TASK_FAIL
       \/ /\ err \in RemoteErrors
          /\ Polls > 0
          /\ Last(CallsOf("DescribeFlowStatus")).r = err
       \/ /\ err = "timeout"
          /\ AllRunning
          /\ Len(statuses) * retryInterval >= 4 * writeRetryTimeout

\* a status query was answered with no response at all: no status report
NoStatusReport ==
    \E i \in 1..Len(trace) :
        /\ trace[i].e = "call"
        /\ trace[i].action = "DescribeFlowStatus"
        /\ trace[i].r = "nil"

\* C19: the poll loop of WaitForTaskFinish always ends: whatever statuses
\* are reported, the method eventually returns success, a non-retryable
\* error, or a timeout once the deadline of 4 * writeRetryTimeout has
\* passed; a flow that is reported running forever ends in the timeout.
C19_PollTerminates ==
    (op = "WaitForTaskFinish" /\ pc = "WaitForTaskFinish_retry")
        ~> (TaskReturned \/ NoStatusReport)

\* the flow was reported running until the deadline
C19_Witness ==
    /\ op = "WaitForTaskFinish"
    /\ Done
    /\ err = "timeout"
    /\ AllRunning
    /\ Polls = 4 * writeRetryTimeout

\* the retry loops whose action may report a transient condition, their
\* deadlines and their calls
RetryLoops == {"DescribeZones", "DescribeProductConfig", "WaitForTaskFinish"}

Deadline(o) ==
    IF o = "WaitForTaskFinish" THEN 4 * writeRetryTimeout
    ELSE readRetryTimeout

Attempts == CallsOf(SingleAction(op))

\* call i reported a transient condition: a transient remote error, or
\* the running status
TransientAt(i) ==
    IF op = "WaitForTaskFinish"
    THEN Attempts[i].r = "ok" /\ statuses[i] = SQLSERVER_TASK_RUNNING
    ELSE Attempts[i].r = "transient"

\* call i reported success
SuccessAt(i) ==
    IF op = "WaitForTaskFinish"
    THEN Attempts[i].r = "ok" /\ statuses[i] = SQLSERVER_TASK_SUCCESS
    ELSE Attempts[i].r = "ok"

\* the first k calls reported a transient condition
TransientUpTo(k) == \A i \in 1..k : TransientAt(i)

\* C20: a retry loop whose action reports a transient condition for its
\* first k calls and success on call k+1 returns success if and only if
\* k * interval < deadline, and a timeout otherwise: call k+1 is made
\* exactly when k * interval < deadline, its success is returned, and
\* the loop ends with a timeout after k transient calls exactly when
\* k * interval >= deadline.
C20_SuccessWithinDeadline ==
    op \in RetryLoops =>
        LET n == Len(Attempts)
        IN  /\ (n > 0 /\ TransientUpTo(n - 1) /\ SuccessAt(n))
                  => /\ (n - 1) * retryInterval < Deadline(op)
                     /\ pc # "panic"
                     /\ Done => err = "nil"
            /\ (n > 0 /\ TransientUpTo(n))
                  => IF n * retryInterval < Deadline(op)
                     THEN ~Done /\ pc # "panic"
                     ELSE Done /\ err = "timeout"

\* DescribeZones returned success at the third call, after two transient
\* errors
C20_Witness ==
    /\ op = "DescribeZones"
    /\ Done
    /\ err = "nil"
    /\ Len(Attempts) = 3
    /\ TransientUpTo(2)
    /\ SuccessAt(3)

\* C21: the resolved instance id is returned only on success:
\* GetInfoFromDeal, and CreateSqlserverInstance and
\* CreateSqlserverReadonlyInstance through it, return a non-empty
\* instanceId if and only if they return a nil error.
C21_IdOnlyOnSuccess ==
    ( /\ Done
      /\ op \in {"GetInfoFromDeal", "CreateSqlserverInstance",
                 "CreateSqlserverReadonlyInstance"} )
        => (out # "" <=> err = "nil")

\* the deal resolved to one instance id, the flow was reported failed, and
\* the operation returned the error together with the instance id
C21_IdWithError ==
    /\ Done
    /\ op \in {"GetInfoFromDeal", "CreateSqlserverInstance",
               "CreateSqlserverReadonlyInstance"}
    /\ OneDeal
    /\ statuses # <<>>
    /\ Last(statuses) = SQLSERVER_TASK_FAIL
    /\ err = "failed"
    /\ out # ""

(***************************************************************************)
(* Claims about the deletion of an account, the filtering of the account   *)
(* attachments, the cursor of the scans and the polls.                     *)
(***************************************************************************)
\* the DeleteAccount call of DeleteSqlserverAccount failed
DeleteAccountFailed ==
    /\ op = "DeleteSqlserverAccount"
    /\ Len(CallsOf("DeleteAccount")) = 1
    /\ CallsOf("DeleteAccount")[1].r \in RemoteErrors

\* C22: when the DeleteAccount call of DeleteSqlserverAccount fails with
\* the not-found code the operation returns nil, when it fails with any
\* other error the operation returns that error, and in both cases no
\* account lookup is made.
C22_NotFoundOnDelete ==
    DeleteAccountFailed =>
        /\ Done
        /\ Lookups("DescribeAccounts") = 0
        /\ err = (IF CallsOf("DeleteAccount")[1].r = "notfound"
                  THEN "nil" ELSE CallsOf("DeleteAccount")[1].r)

\* DeleteAccount reported the instance as not found and the delete returned
\* nil
C22_Witness ==
    /\ DeleteAccountFailed
    /\ CallsOf("DeleteAccount")[1].r = "notfound"
    /\ Done
    /\ err = "nil"
    /\ trace = <<Check("DeleteAccount"), CallsOf("DeleteAccount")[1]>>

\* C23: whenever DescribeSqlserverAccounts returns a nil error, the list it
\* returns is the complete account list of the instance or is empty: a
\* not-found error on a page after the first never gives a nil error
\* together with a truncated, non-empty list.
C23_NoSilentLoss ==
    (op = "DescribeSqlserverAccounts" /\ Done /\ err = "nil")
        => (list = remote.DescribeAccounts \/ list = <<>>)

\* the second page request of DescribeSqlserverAccounts was answered with
\* the not-found error and the scan returned the first page without error
C23_TruncatedWithoutError ==
    /\ op = "DescribeSqlserverAccounts"
    /\ Done
    /\ err = "nil"
    /\ Len(ListCalls) = 2
    /\ ListCalls[2].r = "notfound"
    /\ Len(list) = AccountsLimit
    /\ Len(remote.DescribeAccounts) > AccountsLimit

\* the requests an invocation with registers c made for remote action
CallsIn(c, action) ==
    SelectSeq(c.trace, LAMBDA x : x.e = "call" /\ x.action = action)

\* what the remote holds at the offsets of the first k of the requests,
\* for those answered with a payload
RECURSIVE PagesOf(_, _, _)
PagesOf(coll, calls, k) ==
    IF k = 0 THEN <<>>
    ELSE PagesOf(coll, calls, k - 1) \o
         (IF calls[k].r = "ok"
          THEN RemotePage(coll, calls[k].a.Offset, calls[k].a.Limit)
          ELSE <<>>)

\* the invocation of DescribeSqlserverInstances with registers c has sent
\* what it sends when it runs alone, and has the result it has alone after
\* the answers it got
ScanAsAlone(c) ==
    LET calls == CallsIn(c, "DescribeDBInstances")
        n == Len(calls)
        full(i) == Len(RemotePage(remote.DescribeDBInstances,
                                  calls[i].a.Offset, InstancesLimit))
                       = InstancesLimit
    IN  /\ \A i \in 1..n :
               calls[i].a = [InstanceId |-> c.loc.instanceId,
                             Offset |-> (i - 1) * InstancesLimit,
                             Limit |-> InstancesLimit]
        /\ \A i \in 1..(n - 1) : calls[i].r = "ok" /\ full(i)
        /\ c.list = PagesOf(remote.DescribeDBInstances, calls, n)
        /\ c.pc = "done" =>
               /\ n > 0
               /\ calls[n].r = "ok" => ~full(n)
               /\ c.err = (IF calls[n].r = "ok" THEN "nil"
                           ELSE IF calls[n].r = "nil" THEN "nilresponse"
                           ELSE calls[n].r)

\* the invocation of WaitForTaskFinish with registers c has queried its own
\* flow only, and has returned what it returns alone after the answers it
\* got
WaitAsAlone(c) ==
    LET calls == CallsIn(c, "DescribeFlowStatus")
        n == Len(calls)
        k == Len(c.statuses)
    IN  /\ \A i \in 1..n : calls[i].a = [FlowId |-> c.loc.flowId]
        /\ \A i \in 1..(n - 1) : calls[i].r = "ok"
        /\ \A i \in 1..(k - 1) : c.statuses[i] = SQLSERVER_TASK_RUNNING
        /\ c.pc = "done" =>
               /\ n > 0
               /\ \/ /\ c.err = "nil"
                     /\ calls[n].r = "ok"
                     /\ c.statuses[k] \notin {SQLSERVER_TASK_RUNNING,
                                              SQLSERVER_TASK_FAIL}
                  \/ /\ c.err = "failed"
                     /\ calls[n].r = "ok"
                     /\ c.statuses[k] = SQLSERVER_TASK_FAIL
                  \/ /\ c.err \in RemoteErrors
                     /\ calls[n].r = c.err
                  \/ /\ c.err = "timeout"
                     /\ calls[n].r = "ok"
                     /\ c.statuses[k] = SQLSERVER_TASK_RUNNING
                     /\ k * retryInterval >= TaskTimeout

\* C24: when two invocations of a paginated scan (DescribeSqlserverInstances)
\* or of WaitForTaskFinish run concurrently, under any interleaving each of
\* them sends the offsets / the flow id and returns the result it sends
\* and returns when it runs alone against the same remote answers.
C24_InvocationsIsolated ==
    other # Nil =>
        IF op = "WaitForTaskFinish"
        THEN WaitAsAlone(Context) /\ WaitAsAlone(other)
        ELSE ScanAsAlone(Context) /\ ScanAsAlone(other)

\* two scans over MaxPages full pages of instances took turns while both
\* were under way, and both returned all instances after MaxPages + 1
\* requests
C24_Witness ==
    /\ other # Nil
    /\ other.mixed
    /\ op = "DescribeSqlserverInstances"
    /\ Done
    /\ other.pc = "done"
    /\ Len(list) = MaxPages * InstancesLimit
    /\ other.list = list
    /\ err = "nil"
    /\ other.err = "nil"
    /\ Len(CallsIn(other, "DescribeDBInstances")) = MaxPages + 1

\* the items the remote delivered in answer to the requests of action
Fetched(action) ==
    PagesOf(remote[action], CallsOf(action), Len(CallsOf(action)))

\* the (account, db, privilege) relations of the fetched data: those of the
\* fetched accounts when an account is named, else of the fetched databases
FetchedRelations ==
    IF loc.accountName # <<>>
    THEN LET accounts == Fetched("DescribeAccounts")
         IN  UNION {{[db_name |-> accounts[i].Dbs[j].DBName,
                      account_name |-> accounts[i].Name,
                      privilege |-> accounts[i].Dbs[j].Privilege] :
                         j \in 1..Len(accounts[i].Dbs)} :
                    i \in 1..Len(accounts)}
    ELSE LET dbs == Fetched("DescribeDBs")
         IN  UNION {{[db_name |-> dbs[i].Name,
                      account_name |-> dbs[i].Accounts[j].UserName,
                      privilege |-> dbs[i].Accounts[j].Privilege] :
                         j \in 1..Len(dbs[i].Accounts)} :
                    i \in 1..Len(dbs)}

\* attachment x satisfies the filters given to DescribeAccountDBAttachments
Filtered(x) ==
    /\ loc.dbName # <<>> => x.db_name = loc.dbName
    /\ loc.accountName # <<>> => x.account_name = loc.accountName

\* C25: the filtering of DescribeAccountDBAttachments is sound and
\* complete: every returned attachment has db_name = dbName when dbName is
\* not empty and account_name = accountName when accountName is not empty,
\* and every relation of the fetched data that satisfies the filters is
\* returned exactly once.
C25_FilterSoundComplete ==
    (op = "DescribeAccountDBAttachments" /\ Done /\ err = "nil") =>
        /\ \A i \in 1..Len(list) : Filtered(list[i])
        /\ \A x \in FetchedRelations :
               Filtered(x) =>
                   Cardinality({i \in 1..Len(list) : list[i] = x}) = 1

\* with dbName "a" and no account name, two databases with accounts were
\* fetched and the one attachment of database "a" was returned
C25_Witness ==
    /\ op = "DescribeAccountDBAttachments"
    /\ Done
    /\ err = "nil"
    /\ loc.accountName = <<>>
    /\ loc.dbName = <<"a">>
    /\ Len(Fetched("DescribeDBs")) = 2
    /\ Cardinality(FetchedRelations) = 3
    /\ Len(list) = 1

\* the number of the first k list requests that were answered with a page
PagesBefore(k) ==
    Cardinality({j \in 1..(k - 1) : ListCalls[j].r = "ok"})

\* C26: in every offset/limit scan the cursor sent with the request starts
\* at 0 and the request after i pages carries offset = i * pageSize and
\* limit = pageSize: the increment of the local offset after a full page
\* is visible in the next request, and in an error-free scan, where the
\* i-th request (i = 0, 1, 2, ...) follows i pages, the offsets are
\* strictly increasing and no offset is requested twice.
C26_CursorAdvances ==
    /\ \A k \in 1..Len(ListCalls) :
           /\ ListCalls[k].a.Offset = PagesBefore(k) * ScanLimit(op)
           /\ ListCalls[k].a.Limit = ScanLimit(op)
    /\ ErrorFree =>
           /\ \A k \in 1..Len(ListCalls) :
                  ListCalls[k].a.Offset = (k - 1) * ScanLimit(op)
           /\ \A j, k \in 1..Len(ListCalls) :
                  j < k => ListCalls[j].a.Offset < ListCalls[k].a.Offset

\* an error-free scan of the accounts has sent its third request, with
\* offset 40
C26_Witness ==
    /\ op = "DescribeSqlserverAccounts"
    /\ Done
    /\ ErrorFree
    /\ Len(ListCalls) = 3
    /\ ListCalls[3].a = [InstanceId |-> <<"a">>,
                         Offset |-> 2 * AccountsLimit,
                         Limit |-> AccountsLimit]

\* the list requests of a ckafka scan met nothing but transient failures
\* and successes
TransientOrOk ==
    /\ op \in {"DescribeUserByFilter", "DescribeAclByFilter"}
    /\ Len(ListCalls) > 0
    /\ \A k \in 1..Len(ListCalls) : ListCalls[k].r \in {"ok", "transient"}

\* C27: retrying a page inside DescribeUserByFilter and DescribeAclByFilter
\* never duplicates or drops items: after any number of transient failures
\* of a page request followed by a success within the deadline the items
\* of that page are in the result exactly once, and the scan returns
\* exactly the n remote items.
C27_RetryKeepsItems ==
    TransientOrOk =>
        /\ list = PagesOf(remote[ScanAction(op)], ListCalls, Len(ListCalls))
        /\ (Done /\ Last(ListCalls).r = "ok")
               => /\ err = "nil"
                  /\ list = remote[ScanAction(op)]

\* a scan of 51 users got its first page at the second attempt and its
\* second page at the second attempt, and returned the 51 users
C27_Witness ==
    /\ op = "DescribeUserByFilter"
    /\ Done
    /\ Len(ListCalls) = 4
    /\ ListCalls[1].r = "transient"
    /\ ListCalls[2].r = "ok"
    /\ ListCalls[3].r = "transient"
    /\ ListCalls[4].r = "ok"
    /\ Len(list) = CKAFKA_DESCRIBE_LIMIT + 1
    /\ list = remote.DescribeUser
    /\ err = "nil"

\* C28: DescribeSqlserverInstanceById never reports existence together
\* with an error: has = true implies errRet = nil; when the lookup returns
\* more than one instance the result is an error with has = false; and
\* has = true holds exactly when one instance is returned whose status is
\* none of 4, 6, 8.
C28_HasWithoutError ==
    (op = "DescribeSqlserverInstanceById" /\ Done) =>
        /\ has => err = "nil"
        /\ (err \notin RemoteErrors /\ Len(list) > 1)
               => (~has /\ err # "nil")
        /\ has <=> /\ err \notin RemoteErrors \cup {"nilresponse"}
                   /\ Len(list) = 1
                   /\ list[1].Status \notin {4, 6, 8}

\* the lookup returned two instances, the first of them running, and
\* DescribeSqlserverInstanceById returned has = true with an error
C28_HasWithError ==
    /\ op = "DescribeSqlserverInstanceById"
    /\ Done
    /\ Len(list) = 2
    /\ list[1].Status = 2
    /\ has
    /\ err = "morethanone"

\* the closure of the poll of DeleteSqlserverAccount is about to classify
\* the lookup that has just returned
DeleteLookedUp ==
    /\ op = "DeleteSqlserverAccount"
    /\ pc = "DeleteSqlserverAccount_poll"

\* C29: after a successful DeleteAccount call the poll of
\* DeleteSqlserverAccount returns nil at the first lookup in which the
\* account is absent, goes on to the next lookup while the account is
\* observed with status -1 (as long as the deadline of the retry leaves
\* time for it), and returns an error, without another lookup, at the
\* first lookup in which the account is present with any other status; a
\* lookup error ends the poll at once with that error.
C29_DeletePoll ==
    [][ DeleteLookedUp =>
          /\ trace' = trace
          /\ err # "nil" => (pc' = "done" /\ err' = err)
          /\ (err = "nil" /\ ~has) => (pc' = "done" /\ err' = "nil")
          /\ (err = "nil" /\ has /\ obj.Status = 0 - 1)
                => IF (elapsed + retryInterval) < readRetryTimeout
                   THEN /\ pc' = "DeleteSqlserverAccount_retry"
                        /\ elapsed' = elapsed + retryInterval
                   ELSE pc' = "done" /\ err' = "timeout"
          /\ (err = "nil" /\ has /\ obj.Status # 0 - 1)
                => (pc' = "done" /\ err' \notin {"nil", "timeout"}) ]_vars

\* the first lookup found the account with status -1, the second did not
\* find it, and DeleteSqlserverAccount returned nil
C29_Witness ==
    /\ op = "DeleteSqlserverAccount"
    /\ Done
    /\ err = "nil"
    /\ ~has
    /\ Lookups("DescribeAccounts") = 2
    /\ Len(remote.DescribeAccounts) = 0

\* a lookup found the account with status 2 and DeleteSqlserverAccount
\* returned the error of an invalid status
C29_InvalidStatus ==
    /\ op = "DeleteSqlserverAccount"
    /\ Done
    /\ err = "invalid"
    /\ has
    /\ obj.Status = 2

\* the closure of the poll of UpgradeSqlserverInstance is about to classify
\* the lookup that has just returned
UpgradeLookedUp ==
    /\ op = "UpgradeSqlserverInstance"
    /\ pc = "UpgradeSqlserverInstance_poll"

\* the UpgradeDBInstance call of UpgradeSqlserverInstance failed
UpgradeFailed ==
    /\ op = "UpgradeSqlserverInstance"
    /\ Len(CallsOf("UpgradeDBInstance")) = 1
    /\ CallsOf("UpgradeDBInstance")[1].r \in RemoteErrors

\* C30: after a successful UpgradeDBInstance call UpgradeSqlserverInstance
\* returns nil only after a lookup observed the instance present with a
\* status other than 9; it goes on to the next lookup while the status is
\* 9, until readRetryTimeout; it returns an error without another lookup
\* as soon as a lookup fails or reports the instance as not found.  If the
\* UpgradeDBInstance call itself fails, no lookup is made.
C30_UpgradePoll ==
    /\ [](UpgradeFailed =>
              /\ Done
              /\ err = CallsOf("UpgradeDBInstance")[1].r
              /\ Lookups("DescribeDBInstances") = 0)
    /\ []((op = "UpgradeSqlserverInstance" /\ Done /\ err = "nil") =>
              /\ Lookups("DescribeDBInstances") > 0
              /\ has
              /\ obj.Status # 9)
    /\ [][ UpgradeLookedUp =>
             /\ trace' = trace
             /\ err # "nil" => (pc' = "done" /\ err' = err)
             /\ (err = "nil" /\ ~has)
                   => (pc' = "done" /\ err' \notin {"nil", "timeout"})
             /\ (err = "nil" /\ has /\ obj.Status = 9)
                   => IF (elapsed + retryInterval) < readRetryTimeout
                      THEN /\ pc' = "UpgradeSqlserverInstance_retry"
                           /\ elapsed' = elapsed + retryInterval
                      ELSE pc' = "done" /\ err' = "timeout"
             /\ (err = "nil" /\ has /\ obj.Status # 9)
                   => (pc' = "done" /\ err' = "nil") ]_vars

\* the first lookup found the instance with status 9, the second with
\* status 2, and UpgradeSqlserverInstance returned nil
C30_Witness ==
    /\ op = "UpgradeSqlserverInstance"
    /\ Done
    /\ err = "nil"
    /\ has
    /\ obj.Status = 2
    /\ Lookups("DescribeDBInstances") = 2

(***************************************************************************)
(* Claims about the create submissions and the attachment of an account.   *)
(***************************************************************************)
\* the submit action of a create method
CreateAction(o) ==
    IF o = "CreateSqlserverInstance" THEN "CreateDBInstances"
    ELSE "CreateReadOnlyDBInstances"

\* C31: a create submission is issued at most once: in every execution of
\* CreateSqlserverInstance and CreateSqlserverReadonlyInstance, whatever
\* errors, deal resolutions and poll results follow, the CreateDBInstances
\* (CreateReadOnlyDBInstances) action is invoked exactly once and never
\* retried.
C31_SubmittedOnce ==
    op \in {"CreateSqlserverInstance", "CreateSqlserverReadonlyInstance"} =>
        /\ Len(CallsOf(CreateAction(op))) = (IF pc = op THEN 0 ELSE 1)
        /\ \A i \in 1..Len(trace) :
               (trace[i].e = "call" /\ trace[i].action = CreateAction(op))
                   => i = 2

\* CreateSqlserverInstance got a transient error from its one submission
\* and returned it
C31_Witness ==
    /\ op = "CreateSqlserverInstance"
    /\ Done
    /\ err = "transient"
    /\ Len(CallsOf("CreateDBInstances")) = 1
    /\ CallsOf("CreateDBInstances")[1].r = "transient"
    /\ Len(trace) = 2

\* the positions of the calls of remote action in the trace
CallPositions(action) ==
    {i \in 1..Len(trace) : trace[i].e = "call" /\ trace[i].action = action}

\* ModifyAccountDBAttachment is about to test the result of the account
\* lookup or of the database lookup, and the lookup failed or reported
\* absence (a deleting database is reported absent)
AttachmentCheckFailed ==
    /\ op = "ModifyAccountDBAttachment"
    /\ pc \in {"ModifyAccountDBAttachment_account",
               "ModifyAccountDBAttachment_db"}
    /\ \/ err # "nil"
       \/ ~has
       \/ /\ pc = "ModifyAccountDBAttachment_db"
          /\ obj # Nil
          /\ obj.Status = SQLSERVER_DB_DELETING

\* C32: ModifyAccountDBAttachment issues the ModifyAccountPrivilege call
\* only after both existence checks passed, the account check before the
\* database check: when the account lookup or the database lookup fails
\* or reports absence (or a deleting database), the operation returns an
\* error in that step, without a ModifyAccountPrivilege call and without a
\* status poll.
C32_ChecksBeforeModify ==
    /\ [][ AttachmentCheckFailed =>
             /\ pc' = "done"
             /\ err' # "nil"
             /\ trace' = trace ]_vars
    /\ [](op = "ModifyAccountDBAttachment" =>
            /\ \A i \in CallPositions("DescribeAccounts"),
                  j \in CallPositions("DescribeDBs") : i < j
            /\ \A m \in CallPositions("ModifyAccountPrivilege") :
                  /\ CallPositions("DescribeAccounts") # {}
                  /\ CallPositions("DescribeDBs") # {}
                  /\ \A j \in CallPositions("DescribeDBs") : j < m
                  /\ trace[m - 2].action = "DescribeDBs"
                  /\ trace[m - 2].r = "ok"
                  /\ Last(CallsOf("DescribeAccounts")).r = "ok"
            /\ \A q \in CallPositions("DescribeFlowStatus") :
                  \E m \in CallPositions("ModifyAccountPrivilege") :
                      m < q /\ trace[m].r = "ok"
            /\ (AttachmentCheckFailed \/ pc = op) =>
                  /\ CallPositions("ModifyAccountPrivilege") = {}
                  /\ CallPositions("DescribeFlowStatus") = {})

\* the account was found, the database lookup found the database being
\* deleted, and the operation returned an error after the two lookups
C32_Witness ==
    /\ op = "ModifyAccountDBAttachment"
    /\ Done
    /\ err = "notexist"
    /\ obj # Nil
    /\ obj.Status = SQLSERVER_DB_DELETING
    /\ CallPositions("DescribeAccounts") # {}
    /\ CallPositions("DescribeDBs") # {}
    /\ CallPositions("ModifyAccountPrivilege") = {}
    /\ CallPositions("DescribeFlowStatus") = {}

\* C33: the create request carries the caller's security groups
\* unchanged: for every input list securityGroups the SecurityGroupList
\* sent by CreateSqlserverInstance and CreateSqlserverReadonlyInstance has
\* the same length and, at each index i, the value securityGroups[i].
C33_SecurityGroupsCopied ==
    op \in {"CreateSqlserverInstance", "CreateSqlserverReadonlyInstance"} =>
        \A k \in 1..Len(CallsOf(CreateAction(op))) :
            LET sent == CallsOf(CreateAction(op))[k].a.SecurityGroupList
            IN  /\ Len(sent) = Len(TopLoc.securityGroups)
                /\ \A i \in 1..Len(sent) : sent[i] = TopLoc.securityGroups[i]

\* CreateSqlserverInstance was given the groups sg-1, sg-2 and sent sg-2,
\* sg-2
C33_LastGroupRepeated ==
    /\ op = "CreateSqlserverInstance"
    /\ Len(CallsOf("CreateDBInstances")) = 1
    /\ TopLoc.securityGroups = <<"sg-1", "sg-2">>
    /\ CallsOf("CreateDBInstances")[1].a.SecurityGroupList
           = <<"sg-2", "sg-2">>

====
